---- MODULE Spec2Model ----
(***************************************************************************)
(* A model of the multi-agent system: the message bus                      *)
(* (communication/message_bus.py), the message envelope                    *)
(* (communication/message.py), the agent runtime (agents/base_agent.py)    *)
(* and the manager (agents/manager/coordinator.py).                        *)
(*                                                                         *)
(* The program runs on one asyncio event loop: a coroutine runs without    *)
(* interruption between two suspension points.  The bus's lock is never    *)
(* contended and a put on an unbounded queue never suspends, so every bus  *)
(* operation is one atomic step.                                           *)
(***************************************************************************)
EXTENDS Integers, Sequences, FiniteSets, TLC

\* ------------------------------------------------------------------ bounds

\* The number of messages constructed in a run (uuids drawn).
MaxMsgs == 3

\* ------------------------------------------------------- values of the model

\* None for identifiers (message ids, task ids, correlation ids).
None == 0

\* Agent identifiers.  "ext" never registers an inbox.
AgentIds == {"a1", "a2", "ext"}

\* The well-known identifiers of the manager and of the specialists
\* (coordinator.py:24, 147-150).
ManagerId == "manager"

SpecialistIds == {"research_agent", "analyzer_agent", "writer_agent"}

\* The inbox objects (asyncio.Queue) that exist.  Each belongs to one agent
\* instance, which registers it under its own agent_id (base_agent.py:51);
\* q1 and q2 belong to two instances that use the same id.
\* qm is the manager's inbox, qr, qa and qw are the specialists'.
Queues == {"q1", "q2", "q3", "qm", "qr", "qa", "qw"}

QueueOwner ==
    [q \in Queues |->
        CASE q \in {"q1", "q2"} -> "a1"
          [] q = "q3" -> "a2"
          [] q = "qm" -> ManagerId
          [] q = "qr" -> "research_agent"
          [] q = "qa" -> "analyzer_agent"
          [] q = "qw" -> "writer_agent"]

\* The inboxes the callers of the bare bus register.
BusQueues == {"q1", "q2", "q3"}

\* The order in which a registry is iterated (only used to number the
\* copies a broadcast makes; the ids are uuids, any injective choice will do).
AgentOrder ==
    <<"a1", "a2", "ext", "manager", "research_agent", "analyzer_agent", "writer_agent">>

\* MessageType (message.py:10-19)
MessageType == {"task", "result", "request", "response", "broadcast", "status", "error"}

\* Message.metadata defaults to the empty dict (message.py:44).
EmptyMeta == "{}"

\* A content that is not a mapping (a str, say): it has no .get.
NonMapping == [py_type |-> "str"]

IsMapping(content) == "py_type" \notin DOMAIN content

\* dict.get(key) of a content known to be a mapping, for id-valued keys.
GetId(content, key) == IF key \in DOMAIN content THEN content[key] ELSE None

\* Message (message.py:22-44).  message_id is drawn fresh at construction.
Message(id, to, from, type, content, corr, meta) ==
    [message_id |-> id, to |-> to, from_ |-> from, message_type |-> type,
     content |-> content, correlation_id |-> corr, metadata |-> meta]

VARIABLES
    agents,          \* MessageBus.agents: agent id -> inbox (a partial function)
    inbox,           \* the content of every asyncio.Queue
    message_history, \* MessageBus.message_history
    nextId,          \* the next fresh uuid
    call,            \* the last call made on the bus and what it returned
    running,         \* BaseAgent.running, per agent instance (named by its inbox)
    state,           \* BaseAgent.state
    current_task,    \* BaseAgent.current_task
    loop,            \* where the instance's _process_messages task stands
    handling,        \* the TASK message whose process_task is under way
    stopping,        \* where a call of stop() on the instance stands
    ev,              \* what the last step of an agent did
    sent,            \* every message an agent has passed to the bus
    m_pc,            \* where the manager's process_task stands
    subtask_ids,     \* process_task: the ids of the subtasks it dispatched
    subtask_mapping, \* ManagerAgent.subtask_mapping: subtask id -> parent task id
    remaining,       \* _gather_results: the subtask ids not yet resolved
    results,         \* _gather_results: subtask id -> result
    elapsed,         \* _gather_results: the poll intervals slept since start_time
    final_result,    \* what process_task returned
    timely,          \* the ids of the messages delivered to the manager's inbox
                     \* while _gather_results had polls left for all of its inbox
    w_pc,            \* where the writer's process_task stands
    request_id,      \* _wait_for_response: the request id it waits for
    w_elapsed,       \* _wait_for_response: the poll intervals slept since start_time
    w_response,      \* _wait_for_response: the message it returned
    task_status,     \* Task.status of every Task given to the Coordinator
    active_tasks,    \* Coordinator.active_tasks (the task ids)
    task_assignments,\* Coordinator.task_assignments: task id -> agent id
    c_pc,            \* where the Coordinator's wait_for_results stands
    c_remaining,     \* wait_for_results: remaining_tasks
    c_todo,          \* wait_for_results: the task ids left in the pass over remaining_tasks
    c_results,       \* wait_for_results: task id -> result
    c_elapsed,       \* wait_for_results: the passes of its loop since start_time
    c_recorded,      \* wait_for_results: the awaited tasks whose RESULT the history held at the call
    lock,            \* MessageBus._lock: the caller that holds it
    bcall,           \* the bus call each concurrent caller has under way
    original,        \* the Message that reply() is called on
    replied,         \* what the last call of reply() returned
    wf_pc,           \* wait_for_message: where the call stands
    wf_agent_id,     \* wait_for_message: its argument agent_id
    wf_correlation_id, \* wait_for_message: its argument correlation_id
    wf_timeout,      \* wait_for_message: its argument timeout, in poll intervals
    wf_elapsed,      \* wait_for_message: the poll intervals since start_time
    wf_result,       \* wait_for_message: what it returned
    live,            \* per instance: the consumption-loop tasks created by start() that have not ended
    process_task_ref,\* BaseAgent._process_task: the loop task start() created last (None: none)
    lc_pc,           \* where a call of stop() stands in the lifecycle specification
    stopped          \* per instance: a call of stop() has returned

busVars == <<agents, inbox, message_history, nextId, call>>

agentVars == <<running, state, current_task, loop, handling, stopping, ev, sent>>

mgrVars == <<m_pc, subtask_ids, subtask_mapping, remaining, results, elapsed, final_result>>

wrVars == <<w_pc, request_id, w_elapsed, w_response>>

coVars == <<task_status, active_tasks, task_assignments, c_pc, c_remaining, c_todo, c_results,
           c_elapsed, c_recorded>>

lockVars == <<lock, bcall>>

msgVars == <<original, replied>>

wfVars == <<wf_pc, wf_agent_id, wf_correlation_id, wf_timeout, wf_elapsed, wf_result>>

lcVars == <<live, process_task_ref, lc_pc, stopped>>

vars == <<agents, inbox, message_history, nextId, call,
          running, state, current_task, loop, handling, stopping, ev, sent,
          m_pc, subtask_ids, subtask_mapping, remaining, results, elapsed, final_result,
          timely, w_pc, request_id, w_elapsed, w_response,
          task_status, active_tasks, task_assignments, c_pc, c_remaining, c_todo, c_results,
          c_elapsed, c_recorded,
          lock, bcall,
          original, replied,
          wf_pc, wf_agent_id, wf_correlation_id, wf_timeout, wf_elapsed, wf_result,
          live, process_task_ref, lc_pc, stopped>>

NoCall == [op |-> "none", msg |-> None, exclude |-> {}, ret |-> FALSE, count |-> 0]

\* The results of process_task are dicts: a datum, and the words that
\* _synthesize looks for and finds in str(result).lower().
NoResult == [data |-> "", mentions |-> {}]

\* The task ids of the Tasks given to the Coordinator.
TaskIds == {201, 202}

\* The empty dict.
EmptyMap == [x \in {} |-> None]

\* No result of the manager's process_task yet.
NoFinal == [status |-> "none"]

\* No message (the value of `handling' between two tasks).
NoMsg == Message(None, "", "", "none", NonMapping, None, EmptyMeta)

\* No agent step.
NoEv == [kind |-> "none", q |-> "", msg |-> NoMsg, result |-> NoResult, error |-> ""]

\* No call of Message.reply has been made.
NoReply ==
    /\ original = NoMsg
    /\ replied = NoMsg

\* No instance has been started or stopped.
NoLifecycle ==
    /\ live = [q \in Queues |-> {}]
    /\ process_task_ref = [q \in Queues |-> None]
    /\ lc_pc = [q \in Queues |-> "idle"]
    /\ stopped = [q \in Queues |-> FALSE]

\* No call of wait_for_message is under way.
NoWaitFor ==
    /\ wf_pc = "idle"
    /\ wf_agent_id = ""
    /\ wf_correlation_id = None
    /\ wf_timeout = 0
    /\ wf_elapsed = 0
    /\ wf_result = NoMsg

\* ------------------------------------------------------------ MessageBus

\* register_agent keeping the inbox an id is already registered with.
register_agent_KeepsFirst(ag, agent_id, q) ==
    [a \in DOMAIN ag \cup {agent_id} |-> IF a \in DOMAIN ag THEN ag[a] ELSE q]

\* unregister_agent leaving the registry as it is.
unregister_agent_KeepsEntry(ag, agent_id) == ag

\* MessageBus.register_agent: the registry after register(agent_id, q).
register_agent(ag, agent_id, q) ==
    [a \in DOMAIN ag \cup {agent_id} |-> IF a = agent_id THEN q ELSE ag[a]]

\* MessageBus.unregister_agent: the registry after unregister(agent_id).
unregister_agent(ag, agent_id) ==
    [a \in DOMAIN ag \ {agent_id} |-> ag[a]]

\* send_message with the append to the history forgotten.
send_message_NoHistory(ag, ib, h, m) ==
    IF m.to \notin DOMAIN ag
    THEN [ret |-> FALSE, inbox |-> ib, history |-> h]
    ELSE [ret |-> TRUE,
          inbox |-> [ib EXCEPT ![ag[m.to]] = Append(@, m)],
          history |-> h]

\* send_message recording the message before it looks up the recipient.
send_message_LogsUndelivered(ag, ib, h, m) ==
    IF m.to \notin DOMAIN ag
    THEN [ret |-> FALSE, inbox |-> ib, history |-> Append(h, m)]
    ELSE [ret |-> TRUE,
          inbox |-> [ib EXCEPT ![ag[m.to]] = Append(@, m)],
          history |-> Append(h, m)]

\* send_message keeping a record of the replies it could not deliver.
send_message_RecordsLostReplies(ag, ib, h, m) ==
    IF m.to \notin DOMAIN ag
    THEN [ret |-> FALSE, inbox |-> ib,
          history |-> IF m.message_type \in {"result", "error", "status"}
                      THEN Append(h, m) ELSE h]
    ELSE [ret |-> TRUE,
          inbox |-> [ib EXCEPT ![ag[m.to]] = Append(@, m)],
          history |-> Append(h, m)]

\* MessageBus.send_message on registry ag, inboxes ib and history h:
\* what it returns and the inboxes and history it leaves.
send_message(ag, ib, h, m) ==
    IF m.to \notin DOMAIN ag
    THEN [ret |-> FALSE, inbox |-> ib, history |-> h]
    ELSE [ret |-> TRUE,
          inbox |-> [ib EXCEPT ![ag[m.to]] = Append(@, m)],
          history |-> Append(h, m)]

\* BroadcastTargets with the exclude set ignored.
BroadcastTargets_IgnoresExclude(ag, m, exclude) ==
    {a \in DOMAIN ag : a # m.from_}

\* The agents a broadcast of m reaches (message_bus.py:94-95).
BroadcastTargets(ag, m, exclude) ==
    {a \in DOMAIN ag : a \notin exclude /\ a # m.from_}

\* The position of agent a among the targets, in iteration order (from 0).
TargetRank(targets, a) ==
    Cardinality({i \in 1..Len(AgentOrder) :
                    /\ AgentOrder[i] \in targets
                    /\ \E j \in 1..Len(AgentOrder) : AgentOrder[j] = a /\ i < j})

\* BroadcastCopy keeping the kind of the original.
BroadcastCopy_KeepsKind(m, a, id) ==
    Message(id, a, m.from_, m.message_type, m.content, None, m.metadata)

\* The copy a broadcast of m puts into agent a's inbox (message_bus.py:96-102):
\* a new Message, so with a fresh id, no correlation id and the given fields.
BroadcastCopy(m, a, id) ==
    Message(id, a, m.from_, "broadcast", m.content, None, m.metadata)

\* MessageBus.broadcast: the count it returns, the inboxes and the history
\* it leaves, and the number of message ids it drew.
broadcast(ag, ib, h, m, exclude, id0) ==
    LET targets == BroadcastTargets(ag, m, exclude)
        copyFor(a) == BroadcastCopy(m, a, id0 + TargetRank(targets, a))
        queues == {ag[a] : a \in targets}
        owner(q) == CHOOSE a \in targets : ag[a] = q
    IN [count |-> Cardinality(targets),
        inbox |-> [q \in DOMAIN ib |->
                      IF q \in queues THEN Append(ib[q], copyFor(owner(q))) ELSE ib[q]],
        history |-> Append(h, m),
        drawn |-> Cardinality(targets)]

\* ---------------------------------------------- the bus, called from outside

\* The messages a caller of the bus constructs: one from a sender that never
\* registers, with the default metadata, and one from a sender that does,
\* with metadata; each to any recipient.
Payloads ==
    { [from_ |-> "ext", message_type |-> "task", content |-> [task |-> "test"],
       metadata |-> EmptyMeta],
      [from_ |-> "a1", message_type |-> "result", content |-> [announcement |-> "test"],
       metadata |-> "{k: v}"] }

CallRegister(q) ==
    /\ agents' = register_agent(agents, QueueOwner[q], q)
    /\ call' = [NoCall EXCEPT !.op = "register", !.msg = q]
    /\ UNCHANGED <<inbox, message_history, nextId>>
    /\ UNCHANGED agentVars
    /\ UNCHANGED <<mgrVars, timely, wrVars, coVars, lockVars, msgVars, wfVars, lcVars>>

CallUnregister(a) ==
    /\ agents' = unregister_agent(agents, a)
    /\ call' = [NoCall EXCEPT !.op = "unregister", !.msg = a]
    /\ UNCHANGED <<inbox, message_history, nextId>>
    /\ UNCHANGED agentVars
    /\ UNCHANGED <<mgrVars, timely, wrVars, coVars, lockVars, msgVars, wfVars, lcVars>>

CallSend(to, p) ==
    /\ nextId <= MaxMsgs
    /\ LET m == Message(nextId, to, p.from_, p.message_type, p.content, None, p.metadata)
           r == send_message(agents, inbox, message_history, m)
       IN /\ inbox' = r.inbox
          /\ message_history' = r.history
          /\ call' = [NoCall EXCEPT !.op = "send", !.msg = m, !.ret = r.ret]
    /\ nextId' = nextId + 1
    /\ UNCHANGED agents
    /\ UNCHANGED agentVars
    /\ UNCHANGED <<mgrVars, timely, wrVars, coVars, lockVars, msgVars, wfVars, lcVars>>

CallBroadcast(p, exclude) ==
    /\ nextId + Cardinality(BroadcastTargets(agents, p, exclude)) <= MaxMsgs
    /\ LET m == Message(nextId, "all", p.from_, p.message_type, p.content, None, p.metadata)
           r == broadcast(agents, inbox, message_history, m, exclude, nextId + 1)
       IN /\ inbox' = r.inbox
          /\ message_history' = r.history
          /\ call' = [NoCall EXCEPT !.op = "broadcast", !.msg = m,
                                     !.exclude = exclude, !.count = r.count]
          /\ nextId' = nextId + 1 + r.drawn
    /\ UNCHANGED agents
    /\ UNCHANGED agentVars
    /\ UNCHANGED <<mgrVars, timely, wrVars, coVars, lockVars, msgVars, wfVars, lcVars>>

\* The coroutines that call the bus concurrently.
Callers == {"c1", "c2"}

\* Nobody holds the lock.
NoHolder == ""

\* No bus call under way.
NoOp == [pc |-> "idle", op |-> "none", msg |-> NoMsg, q |-> "", agent_id |-> ""]

\* MessageBus.__init__: no agent registered, an empty history, a free lock.
BusCreated ==
    /\ lock = NoHolder
    /\ bcall = [c \in Callers |-> NoOp]
    /\ agents = [a \in {} |-> "q1"]
    /\ inbox = [q \in Queues |-> <<>>]
    /\ message_history = <<>>
    /\ nextId = 1
    /\ call = NoCall

\* BaseAgent.__init__ (base_agent.py:37-45), for every instance.
AgentsCreated ==
    /\ running = [q \in Queues |-> FALSE]
    /\ state = [q \in Queues |-> "idle"]
    /\ current_task = [q \in Queues |-> None]
    /\ loop = [q \in Queues |-> "none"]
    /\ handling = [q \in Queues |-> NoMsg]
    /\ stopping = [q \in Queues |-> "no"]
    /\ ev = NoEv
    /\ sent = {}

\* ManagerAgent.__init__ (coordinator.py:37-38); no process_task under way.
ManagerCreated ==
    /\ m_pc = "idle"
    /\ subtask_ids = <<>>
    /\ subtask_mapping = EmptyMap
    /\ remaining = {}
    /\ results = EmptyMap
    /\ elapsed = 0
    /\ final_result = NoFinal
    /\ timely = {}

\* WriterAgent.__init__ (creator.py:31-36); no process_task under way.
WriterCreated ==
    /\ w_pc = "idle"
    /\ request_id = None
    /\ w_elapsed = 0
    /\ w_response = NoMsg

\* Coordinator.__init__ (coordination.py:28-30); every Task is created
\* PENDING (protocol.py:50); no wait_for_results under way.
CoordinatorCreated ==
    /\ task_status = [t \in TaskIds |-> "pending"]
    /\ active_tasks = {}
    /\ task_assignments = EmptyMap
    /\ c_pc = "idle"
    /\ c_remaining = {}
    /\ c_todo = <<>>
    /\ c_results = EmptyMap
    /\ c_elapsed = 0
    /\ c_recorded = {}

BusInit ==
    /\ BusCreated
    /\ AgentsCreated
    /\ ManagerCreated
    /\ WriterCreated
    /\ CoordinatorCreated
    /\ NoReply
    /\ NoWaitFor
    /\ NoLifecycle

BusNext ==
    \/ \E q \in BusQueues : CallRegister(q)
    \/ \E a \in AgentIds : CallUnregister(a)
    \/ \E to \in AgentIds, p \in Payloads : CallSend(to, p)
    \/ \E p \in Payloads, exclude \in SUBSET {"a1", "a2"} : CallBroadcast(p, exclude)

SpecBus == BusInit /\ [][BusNext]_vars

\* --------------------------------------------------------- Message.reply

\* reply addressed like the message it answers.
reply_SameDirection(self, content, message_type, id) ==
    Message(id, self.to, self.from_, message_type, content, self.message_id, EmptyMeta)

\* Message.reply (message.py:46-63): a new Message (fresh message_id,
\* default metadata) from the recipient back to the sender, correlated with
\* the message_id of the message it answers.
reply(self, content, message_type, id) ==
    Message(id, self.from_, self.to, message_type, content, self.message_id, EmptyMeta)

\* The message_ids (uuids) and correlation_id of the messages replied to.
OriginalIds == {101, 102}

OriginalCorrelations == {None, 100}

\* The messages reply() is called on.
Originals ==
    { Message(id, to, from, type, content, corr, EmptyMeta) :
        id \in OriginalIds, to \in AgentIds, from \in AgentIds,
        type \in {"task", "request"}, content \in {[data |-> "test"], NonMapping},
        corr \in OriginalCorrelations }

\* The contents and the message types given to reply(); RESPONSE is the
\* default type.
ReplyContents == {[result |-> "done"], NonMapping}

ReplyTypes == {"response", "result"}

\* original.reply(content, message_type): builds the reply and assigns
\* nothing to the message it is called on.
CallReply(content, message_type) ==
    /\ nextId <= MaxMsgs
    /\ replied' = reply(original, content, message_type, nextId)
    /\ nextId' = nextId + 1
    /\ call' = [NoCall EXCEPT !.op = "reply", !.msg = content]
    /\ UNCHANGED original
    /\ UNCHANGED <<agents, inbox, message_history>>
    /\ UNCHANGED agentVars
    /\ UNCHANGED <<mgrVars, timely, wrVars, coVars, lockVars, wfVars, lcVars>>

ReplyInit ==
    /\ BusCreated
    /\ AgentsCreated
    /\ ManagerCreated
    /\ WriterCreated
    /\ CoordinatorCreated
    /\ original \in Originals
    /\ replied = NoMsg
    /\ NoWaitFor
    /\ NoLifecycle

ReplyNext ==
    \E content \in ReplyContents, message_type \in ReplyTypes :
        CallReply(content, message_type)

SpecReply == ReplyInit /\ [][ReplyNext]_vars

\* ------------------------------------- concurrent callers and the bus lock

\* The calls that the concurrent callers make: sends to a1, registrations
\* of a1 with either of its inboxes, and unregistrations of a1.
LockOps ==
    { [op |-> "send", q |-> "", agent_id |-> "a1"],
      [op |-> "register", q |-> "q1", agent_id |-> "a1"],
      [op |-> "register", q |-> "q2", agent_id |-> "a1"],
      [op |-> "unregister", q |-> "", agent_id |-> "a1"] }

\* `async with self._lock' lets a caller in when nobody holds the lock, with
\* the lock taken without regard to its holder.
LockFree_Ignored == TRUE

\* `async with self._lock' (message_bus.py:36, 49, 64) lets a caller in when
\* nobody holds the lock.
LockFree == lock = NoHolder

\* A caller calls register_agent, unregister_agent or send_message and
\* reaches `async with self._lock'.
BeginCall(c, o) ==
    /\ bcall[c].pc = "idle"
    /\ o.op = "send" => nextId <= MaxMsgs
    /\ bcall' = [bcall EXCEPT ![c] =
                   [pc |-> "acquire", op |-> o.op,
                    msg |-> IF o.op = "send"
                            THEN Message(nextId, o.agent_id, c, "task", [task |-> "test"],
                                         None, EmptyMeta)
                            ELSE NoMsg,
                    q |-> o.q, agent_id |-> o.agent_id]]
    /\ nextId' = IF o.op = "send" THEN nextId + 1 ELSE nextId
    /\ call' = NoCall
    /\ UNCHANGED <<agents, inbox, message_history, lock>>
    /\ UNCHANGED agentVars
    /\ UNCHANGED <<mgrVars, timely, wrVars, coVars, msgVars, wfVars, lcVars>>

\* The caller enters the lock and runs up to its next await.  register_agent
\* and unregister_agent run to their end and release the lock.  send_message
\* returns False for an unregistered recipient, and otherwise looks up the
\* recipient's inbox (message_bus.py:69) and awaits inbox.put with the lock
\* held.
EnterLock(c) ==
    /\ bcall[c].pc = "acquire"
    /\ LockFree
    /\ LET o == bcall[c]
       IN CASE o.op = "register" ->
                 /\ agents' = register_agent(agents, o.agent_id, o.q)
                 /\ call' = [NoCall EXCEPT !.op = "register", !.msg = o.q]
                 /\ bcall' = [bcall EXCEPT ![c] = NoOp]
                 /\ UNCHANGED lock
            [] o.op = "unregister" ->
                 /\ agents' = unregister_agent(agents, o.agent_id)
                 /\ call' = [NoCall EXCEPT !.op = "unregister", !.msg = o.agent_id]
                 /\ bcall' = [bcall EXCEPT ![c] = NoOp]
                 /\ UNCHANGED lock
            [] o.op = "send" /\ o.msg.to \notin DOMAIN agents ->
                 /\ call' = [NoCall EXCEPT !.op = "send", !.msg = o.msg, !.ret = FALSE]
                 /\ bcall' = [bcall EXCEPT ![c] = NoOp]
                 /\ UNCHANGED <<agents, lock>>
            [] OTHER ->
                 /\ call' = NoCall
                 /\ bcall' = [bcall EXCEPT ![c] = [o EXCEPT !.pc = "put", !.q = agents[o.msg.to]]]
                 /\ lock' = c
                 /\ UNCHANGED agents
    /\ UNCHANGED <<inbox, message_history, nextId>>
    /\ UNCHANGED agentVars
    /\ UNCHANGED <<mgrVars, timely, wrVars, coVars, msgVars, wfVars, lcVars>>

\* inbox.put completes: the message is in the inbox that was looked up, it
\* is appended to the history, the lock is released and send_message returns
\* True (message_bus.py:70-77).
PutDone(c) ==
    /\ bcall[c].pc = "put"
    /\ LET o == bcall[c]
       IN /\ inbox' = [inbox EXCEPT ![o.q] = Append(@, o.msg)]
          /\ message_history' = Append(message_history, o.msg)
          /\ call' = [NoCall EXCEPT !.op = "send", !.msg = o.msg, !.ret = TRUE]
    /\ bcall' = [bcall EXCEPT ![c] = NoOp]
    /\ lock' = IF lock = c THEN NoHolder ELSE lock
    /\ UNCHANGED <<agents, nextId>>
    /\ UNCHANGED agentVars
    /\ UNCHANGED <<mgrVars, timely, wrVars, coVars, msgVars, wfVars, lcVars>>

LockNext ==
    \/ \E c \in Callers, o \in LockOps : BeginCall(c, o)
    \/ \E c \in Callers : EnterLock(c)
    \/ \E c \in Callers : PutDone(c)

SpecLock == BusInit /\ [][LockNext]_vars

\* --------------------------------------------- the history and its readers

\* The last n elements of the sequence h (h[-n:] for n > 0).
LastN(h, n) == IF n >= Len(h) THEN h ELSE SubSeq(h, Len(h) - n + 1, Len(h))

\* limit=None, the default of get_history.
NoLimit == -1

\* MessageBus.get_history (message_bus.py:126-137).  No agent id is "";
\* `if agent_id' and `if limit' are false for None and also for "" and 0.
get_history(h, agent_id, limit) ==
    LET Involves(msg) == msg.from_ = agent_id \/ msg.to = agent_id
        history == IF agent_id # "" THEN SelectSeq(h, Involves) ELSE h
    IN IF limit # NoLimit /\ limit # 0 THEN LastN(history, limit) ELSE history

\* wait_scan going through the history from its oldest message.
wait_scan_Oldest(h, agent_id, correlation_id) ==
    LET matches == {i \in 1..Len(h) :
                      /\ h[i].from_ = agent_id
                      /\ correlation_id = None \/ h[i].correlation_id = correlation_id}
    IN IF matches = {} THEN NoMsg
       ELSE h[CHOOSE i \in matches : \A j \in matches : i <= j]

\* One pass of the loop of MessageBus.wait_for_message (message_bus.py:168-
\* 171): the newest message of the history sent by agent_id, with the
\* correlation id when one is given, or NoMsg when there is none.
wait_scan(h, agent_id, correlation_id) ==
    LET matches == {i \in 1..Len(h) :
                      /\ h[i].from_ = agent_id
                      /\ correlation_id = None \/ h[i].correlation_id = correlation_id}
    IN IF matches = {} THEN NoMsg
       ELSE h[CHOOSE i \in matches : \A j \in matches : j <= i]

\* MessageBus.clear_history (message_bus.py:176-179).
clear_history(h) == <<>>

\* The limits given to get_history.
Limits == {NoLimit, 0, 1, 2}

CallGetHistory(agent_id, limit) ==
    /\ call' = [NoCall EXCEPT !.op = "history",
                              !.msg = [agent_id |-> agent_id, limit |-> limit],
                              !.ret = get_history(message_history, agent_id, limit)]
    /\ UNCHANGED <<agents, inbox, message_history, nextId>>
    /\ UNCHANGED agentVars
    /\ UNCHANGED <<mgrVars, timely, wrVars, coVars, lockVars, msgVars, wfVars, lcVars>>

CallWaitScan(agent_id, correlation_id) ==
    /\ call' = [NoCall EXCEPT !.op = "wait_for",
                              !.msg = wait_scan(message_history, agent_id, correlation_id)]
    /\ UNCHANGED <<agents, inbox, message_history, nextId>>
    /\ UNCHANGED agentVars
    /\ UNCHANGED <<mgrVars, timely, wrVars, coVars, lockVars, msgVars, wfVars, lcVars>>

CallClearHistory ==
    /\ message_history' = clear_history(message_history)
    /\ call' = [NoCall EXCEPT !.op = "clear_history"]
    /\ UNCHANGED <<agents, inbox, nextId>>
    /\ UNCHANGED agentVars
    /\ UNCHANGED <<mgrVars, timely, wrVars, coVars, lockVars, msgVars, wfVars, lcVars>>

HistoryNext ==
    \/ BusNext
    \/ \E a \in {"", "a1"}, limit \in Limits : CallGetHistory(a, limit)
    \/ \E a \in {"a1", "ext"}, c \in {None, 1} : CallWaitScan(a, c)
    \/ CallClearHistory

SpecHistory == BusInit /\ [][HistoryNext]_vars

\* ------------------------------------------------------ wait_for_message

\* The polls wait_for_message makes before its timeout when every sleep
\* lasts 0.1 s (timeout / 0.1 s).
WaitForPolls == 3

\* The loop of wait_for_message at time `now' (message_bus.py:167-174):
\* past the timeout it returns None; before it, it scans the history and
\* returns the match, or sleeps when there is none.
wait_for_step(agent_id, correlation_id, timeout, now) ==
    IF now >= timeout
    THEN /\ wf_pc' = "returned"
         /\ wf_result' = NoMsg
    ELSE LET msg == wait_scan(message_history, agent_id, correlation_id)
         IN /\ wf_pc' = IF msg = NoMsg THEN "sleeping" ELSE "returned"
            /\ wf_result' = msg

\* wait_for_message(agent_id, correlation_id, timeout) is called
\* (message_bus.py:165-172), once in a behaviour.
CallWaitFor(agent_id, correlation_id, timeout) ==
    /\ wf_pc = "idle"
    /\ wf_agent_id' = agent_id
    /\ wf_correlation_id' = correlation_id
    /\ wf_timeout' = timeout
    /\ wf_elapsed' = 0
    /\ wait_for_step(agent_id, correlation_id, timeout, 0)
    /\ call' = [NoCall EXCEPT !.op = "wait_for_message"]
    /\ UNCHANGED <<agents, inbox, message_history, nextId>>
    /\ UNCHANGED agentVars
    /\ UNCHANGED <<mgrVars, timely, wrVars, coVars, lockVars, msgVars, lcVars>>

\* asyncio.sleep(0.1) returns (message_bus.py:172), after one poll interval
\* or later, and the loop goes on.
WaitForWake ==
    /\ wf_pc = "sleeping"
    /\ \E late \in 1..(wf_timeout - wf_elapsed) :
          /\ wf_elapsed' = wf_elapsed + late
          /\ wait_for_step(wf_agent_id, wf_correlation_id, wf_timeout, wf_elapsed + late)
    /\ call' = [NoCall EXCEPT !.op = "wait_for_message"]
    /\ UNCHANGED <<wf_agent_id, wf_correlation_id, wf_timeout>>
    /\ UNCHANGED <<agents, inbox, message_history, nextId>>
    /\ UNCHANGED agentVars
    /\ UNCHANGED <<mgrVars, timely, wrVars, coVars, lockVars, msgVars, lcVars>>

\* The correlation ids of the messages sent meanwhile, and of the wait.
WaitCorrelations == {None, 7}

\* A message is sent to a1 through the bus while the call waits.
WaitSend(from, correlation_id) ==
    /\ nextId <= MaxMsgs
    /\ LET m == Message(nextId, "a1", from, "result", [result |-> "done"],
                        correlation_id, EmptyMeta)
           r == send_message(agents, inbox, message_history, m)
       IN /\ inbox' = r.inbox
          /\ message_history' = r.history
          /\ call' = [NoCall EXCEPT !.op = "send", !.msg = m, !.ret = r.ret]
    /\ nextId' = nextId + 1
    /\ UNCHANGED agents
    /\ UNCHANGED agentVars
    /\ UNCHANGED <<mgrVars, timely, wrVars, coVars, lockVars, msgVars, wfVars, lcVars>>

WaitForNext ==
    \/ CallRegister("q1")
    \/ \E from \in {"a2", "ext"}, correlation_id \in WaitCorrelations :
          WaitSend(from, correlation_id)
    \/ CallClearHistory
    \/ \E agent_id \in {"a2", "ext"}, correlation_id \in WaitCorrelations,
          timeout \in {0, WaitForPolls} :
          CallWaitFor(agent_id, correlation_id, timeout)
    \/ WaitForWake

SpecWaitFor == BusInit /\ [][WaitForNext]_vars

\* ------------------------------------------------------------- BaseAgent

\* The capabilities each agent instance was created with (base_agent.py:39;
\* gatherer.py:32, coordinator.py:35, insights.py:33, creator.py:34).
Capabilities ==
    [q \in Queues |->
        CASE q = "q1" -> <<"testing">>
          [] q = "qm" -> <<"coordination", "task_decomposition", "synthesis">>
          [] q = "qr" -> <<"research", "information_gathering", "verification">>
          [] q = "qa" -> <<"analysis", "pattern_detection", "statistics", "visualization">>
          [] q = "qw" -> <<"writing", "content_creation", "summarization", "structuring">>
          [] OTHER -> <<>>]

\* BaseAgent.get_status (base_agent.py:200-213) without the agent id, which
\* the STATUS message does not carry; the workload in tenths.
get_status(st, task, capabilities) ==
    [state |-> st, current_task |-> task, capabilities |-> capabilities,
     workload |-> IF st = "busy" THEN 5 ELSE 0]

\* ResultMessage with the correlation id left out.
ResultMessage_Uncorrelated(id, self_id, message, result) ==
    Message(id, message.from_, self_id, "result",
            [task_id |-> GetId(message.content, "task_id"), result |-> result,
             status |-> "completed"],
            None, EmptyMeta)

\* The RESULT message of _handle_task_message (base_agent.py:112-122).
ResultMessage(id, self_id, message, result) ==
    Message(id, message.from_, self_id, "result",
            [task_id |-> GetId(message.content, "task_id"), result |-> result,
             status |-> "completed"],
            message.message_id, EmptyMeta)

\* _send_error answering with the kind of a successful reply.
send_error_AsResult(id, self_id, original_message, error) ==
    Message(id, original_message.from_, self_id, "result",
            [error |-> error, original_message_id |-> original_message.message_id],
            original_message.message_id, EmptyMeta)

\* The ERROR message of BaseAgent._send_error (base_agent.py:164-172).
send_error(id, self_id, original_message, error) ==
    Message(id, original_message.from_, self_id, "error",
            [error |-> error, original_message_id |-> original_message.message_id],
            original_message.message_id, EmptyMeta)

\* StatusMessage with the correlation id left out.
StatusMessage_Uncorrelated(id, self_id, message, status) ==
    Message(id, message.from_, self_id, "status", status, None, EmptyMeta)

\* The STATUS message of _handle_request_message (base_agent.py:138-150).
StatusMessage(id, self_id, message, status) ==
    Message(id, message.from_, self_id, "status", status, message.message_id, EmptyMeta)

\* The text of the AttributeError raised by .get on a content that is no mapping.
NoGetError == "'str' object has no attribute 'get'"

\* The number of poll intervals of _gather_results before its deadline:
\* timeout / 0.1 (coordinator.py:155, 183).
GatherPolls == 3

\* _gather_results is under way and, taking one message at each poll, will
\* have taken every message of the manager's inbox ib["qm"] by its deadline.
InTime(ib) ==
    /\ m_pc = "gather"
    /\ Len(ib["qm"]) <= GatherPolls - 1 - elapsed

\* An agent passes message m to the bus, the inboxes being ib.
AgentSends(ib, m) ==
    LET r == send_message(agents, ib, message_history, m)
    IN /\ inbox' = r.inbox
       /\ message_history' = r.history
       /\ call' = [NoCall EXCEPT !.op = "send", !.msg = m, !.ret = r.ret]
       /\ sent' = sent \cup {m}
       /\ nextId' = nextId + 1
       /\ timely' = IF r.ret /\ m.to = ManagerId /\ InTime(r.inbox) THEN timely \cup {m.message_id}
                     ELSE timely

\* An agent step that sends nothing, the inboxes becoming ib.
AgentSendsNothing(ib) ==
    /\ inbox' = ib
    /\ call' = NoCall
    /\ UNCHANGED <<message_history, sent, nextId, timely>>

\* BaseAgent.start (base_agent.py:49-54): register the inbox, set running,
\* create the task of the consumption loop.  Nothing in it suspends.
Start(q) ==
    /\ loop[q] = "none"
    /\ stopping[q] = "no"
    /\ agents' = register_agent(agents, QueueOwner[q], q)
    /\ running' = [running EXCEPT ![q] = TRUE]
    /\ loop' = [loop EXCEPT ![q] = "wait"]
    /\ call' = [NoCall EXCEPT !.op = "register", !.msg = q]
    /\ ev' = [NoEv EXCEPT !.kind = "started", !.q = q]
    /\ UNCHANGED <<inbox, message_history, nextId, sent>>
    /\ UNCHANGED <<state, current_task, handling, stopping>>
    /\ UNCHANGED <<mgrVars, timely, wrVars, coVars, lockVars, msgVars, wfVars, lcVars>>

\* The finally clause clearing the current task and leaving the state.
TaskFinally_KeepsState(q) ==
    /\ state' = state
    /\ current_task' = [current_task EXCEPT ![q] = None]

\* The finally clause of _handle_task_message (base_agent.py:128-130).
TaskFinally(q) ==
    /\ state' = [state EXCEPT ![q] = "idle"]
    /\ current_task' = [current_task EXCEPT ![q] = None]


\* A TASK with a task mapping for the manager: its process_task is
\* ManagerAgent.process_task, modelled by ManagerTakesTask below.
ManagerTask(q, message) ==
    q = "qm" /\ message.message_type = "task" /\ IsMapping(message.content)

\* handle_message answering every message with an ERROR message.
handle_message_RepliesError(q, message, rest, after) ==
    /\ AgentSends(rest, send_error(nextId, QueueOwner[q], message, "unhandled"))
    /\ ev' = [NoEv EXCEPT !.kind = "ignored", !.q = q, !.msg = message]
    /\ loop' = [loop EXCEPT ![q] = after]
    /\ UNCHANGED <<state, current_task, handling>>

\* BaseAgent.handle_message (base_agent.py:228-235), which subclasses may
\* override: it logs and ignores the message.
handle_message(q, message, rest, after) ==
    /\ AgentSendsNothing(rest)
    /\ ev' = [NoEv EXCEPT !.kind = "ignored", !.q = q, !.msg = message]
    /\ loop' = [loop EXCEPT ![q] = after]
    /\ UNCHANGED <<state, current_task, handling>>

\* The dispatch of a message taken from the inbox by kind, up to the next
\* suspension (_handle_message, base_agent.py:88-101).
\*   TASK: state becomes busy, then task_data.get raises on a content that
\*     is no mapping (outside the try of _handle_task_message, so that its
\*     finally clause does not run) and _handle_message sends the error;
\*     otherwise current_task is set and process_task is entered.
\*   REQUEST: content.get raises on a content that is no mapping; action
\*     "status" is answered with a STATUS message; other actions go to
\*     handle_message, which ignores them.
\*   Any other kind goes to handle_message, which ignores it.
\* `rest' are the inboxes without the message, and `after' is where the loop
\* stands once a message that needs no await has been handled.
HandleMessage(q, message, rest, after) ==
    LET self_id == QueueOwner[q]
    IN CASE message.message_type = "task" /\ ~IsMapping(message.content) ->
              /\ state' = [state EXCEPT ![q] = "busy"]
              /\ AgentSends(rest, send_error(nextId, self_id, message, NoGetError))
              /\ ev' = [NoEv EXCEPT !.kind = "malformed", !.q = q, !.msg = message, !.error = NoGetError]
              /\ loop' = [loop EXCEPT ![q] = after]
              /\ UNCHANGED <<current_task, handling>>
         [] message.message_type = "task" /\ IsMapping(message.content) ->
              /\ state' = [state EXCEPT ![q] = "busy"]
              /\ current_task' = [current_task EXCEPT ![q] = GetId(message.content, "task_id")]
              /\ loop' = [loop EXCEPT ![q] = "processing"]
              /\ handling' = [handling EXCEPT ![q] = message]
              /\ AgentSendsNothing(rest)
              /\ ev' = [NoEv EXCEPT !.kind = "task_started", !.q = q, !.msg = message]
         [] message.message_type = "request" /\ ~IsMapping(message.content) ->
              /\ AgentSends(rest, send_error(nextId, self_id, message, NoGetError))
              /\ ev' = [NoEv EXCEPT !.kind = "request_failed", !.q = q, !.msg = message,
                                    !.error = NoGetError]
              /\ loop' = [loop EXCEPT ![q] = after]
              /\ UNCHANGED <<state, current_task, handling>>
         [] /\ message.message_type = "request" /\ IsMapping(message.content)
            /\ "action" \in DOMAIN message.content
            /\ message.content.action = "status" ->
              /\ AgentSends(rest, StatusMessage(nextId, self_id, message,
                                                get_status(state[q], current_task[q], Capabilities[q])))
              /\ ev' = [NoEv EXCEPT !.kind = "status_sent", !.q = q, !.msg = message]
              /\ loop' = [loop EXCEPT ![q] = after]
              /\ UNCHANGED <<state, current_task, handling>>
         [] OTHER -> handle_message(q, message, rest, after)

\* The loop, waiting on its inbox while it runs, takes the next message and
\* handles it, and then waits again (base_agent.py:70-73).
ProcessMessage(q) ==
    /\ loop[q] = "wait"
    /\ running[q]
    /\ stopping[q] = "no"
    /\ inbox[q] # <<>>
    /\ ~ManagerTask(q, Head(inbox[q]))
    /\ HandleMessage(q, Head(inbox[q]), [inbox EXCEPT ![q] = Tail(@)], "wait")
    /\ UNCHANGED <<agents, running, stopping>>
    /\ UNCHANGED <<mgrVars, wrVars, coVars, lockVars, msgVars, wfVars, lcVars>>

\* The cancellation was dropped by asyncio.wait_for, which returns the
\* message that was ready: the loop handles it to its end and only then
\* sees that running is false and exits (base_agent.py:70-73).
LoopSwallowsCancel(q) ==
    /\ loop[q] = "wait"
    /\ stopping[q] = "swallowing"
    /\ inbox[q] # <<>>
    /\ ~ManagerTask(q, Head(inbox[q]))
    /\ HandleMessage(q, Head(inbox[q]), [inbox EXCEPT ![q] = Tail(@)], "done")
    /\ stopping' = [stopping EXCEPT ![q] = "draining"]
    /\ UNCHANGED <<agents, running>>
    /\ UNCHANGED <<mgrVars, wrVars, coVars, lockVars, msgVars, wfVars, lcVars>>

\* What process_task does: it returns a result or raises an error.
Outcomes ==
    { [ok |-> TRUE, result |-> [data |-> "r1", mentions |-> {"research"}], error |-> ""],
      [ok |-> FALSE, result |-> NoResult, error |-> "boom"] }

\* TaskDone with the error of process_task ending the consumption loop.
TaskDone_ErrorEndsLoop(q, outcome) ==
    /\ loop[q] = "processing"
    /\ stopping[q] \in {"no", "draining"}
    /\ LET message == handling[q]
           self_id == QueueOwner[q]
       IN IF outcome.ok
          THEN /\ AgentSends(inbox, ResultMessage(nextId, self_id, message, outcome.result))
               /\ ev' = [NoEv EXCEPT !.kind = "returned", !.q = q, !.msg = message,
                                      !.result = outcome.result]
          ELSE /\ AgentSends(inbox, send_error(nextId, self_id, message, outcome.error))
               /\ ev' = [NoEv EXCEPT !.kind = "raised", !.q = q, !.msg = message,
                                      !.error = outcome.error]
    /\ TaskFinally(q)
    /\ loop' = [loop EXCEPT ![q] = IF running[q] /\ outcome.ok THEN "wait" ELSE "done"]
    /\ handling' = [handling EXCEPT ![q] = NoMsg]
    /\ UNCHANGED <<agents, running, stopping>>
    /\ UNCHANGED <<mgrVars, wrVars, coVars, lockVars, msgVars, wfVars, lcVars>>

\* TaskDone with the error of process_task raised again after the ERROR was
\* sent, so that _handle_message sends a second ERROR for the TASK.
TaskDone_ErrorRaisedAgain(q, outcome) ==
    /\ loop[q] = "processing"
    /\ stopping[q] \in {"no", "draining"}
    /\ LET message == handling[q]
           self_id == QueueOwner[q]
           first == send_error(nextId, self_id, message, outcome.error)
           second == send_error(nextId + 1, self_id, message, outcome.error)
           r1 == send_message(agents, inbox, message_history, first)
           r2 == send_message(agents, r1.inbox, r1.history, second)
       IN IF outcome.ok
          THEN /\ AgentSends(inbox, ResultMessage(nextId, self_id, message, outcome.result))
               /\ ev' = [NoEv EXCEPT !.kind = "returned", !.q = q, !.msg = message,
                                      !.result = outcome.result]
          ELSE /\ inbox' = r2.inbox
               /\ message_history' = r2.history
               /\ call' = [NoCall EXCEPT !.op = "send", !.msg = second, !.ret = r2.ret]
               /\ sent' = sent \cup {first, second}
               /\ nextId' = nextId + 2
               /\ timely' = timely
               /\ ev' = [NoEv EXCEPT !.kind = "raised", !.q = q, !.msg = message,
                                      !.error = outcome.error]
    /\ TaskFinally(q)
    /\ loop' = [loop EXCEPT ![q] = IF running[q] THEN "wait" ELSE "done"]
    /\ handling' = [handling EXCEPT ![q] = NoMsg]
    /\ UNCHANGED <<agents, running, stopping>>
    /\ UNCHANGED <<mgrVars, wrVars, coVars, lockVars, msgVars, wfVars, lcVars>>

\* The end of _handle_task_message (base_agent.py:110-130): process_task has
\* returned and the RESULT is sent, or it has raised and the ERROR is sent;
\* then the finally clause.
TaskDone(q, outcome) ==
    /\ loop[q] = "processing"
    /\ stopping[q] \in {"no", "draining"}
    /\ LET message == handling[q]
           self_id == QueueOwner[q]
       IN IF outcome.ok
          THEN /\ AgentSends(inbox, ResultMessage(nextId, self_id, message, outcome.result))
               /\ ev' = [NoEv EXCEPT !.kind = "returned", !.q = q, !.msg = message,
                                      !.result = outcome.result]
          ELSE /\ AgentSends(inbox, send_error(nextId, self_id, message, outcome.error))
               /\ ev' = [NoEv EXCEPT !.kind = "raised", !.q = q, !.msg = message,
                                      !.error = outcome.error]
    /\ TaskFinally(q)
    /\ loop' = [loop EXCEPT ![q] = IF running[q] THEN "wait" ELSE "done"]
    /\ handling' = [handling EXCEPT ![q] = NoMsg]
    /\ UNCHANGED <<agents, running, stopping>>
    /\ UNCHANGED <<mgrVars, wrVars, coVars, lockVars, msgVars, wfVars, lcVars>>

\* What task.cancel() (base_agent.py:60) leads to.  The loop gets
\* CancelledError at its suspension point ("awaiting").  When it waits on its
\* inbox and inbox.get has a message ready for it, asyncio.wait_for (Python
\* up to 3.11) instead returns the message and drops the cancellation
\* ("swallowing").
CancelOutcomes(q) ==
    IF loop[q] = "wait" /\ inbox[q] # <<>>
    THEN {"awaiting", "swallowing"}
    ELSE {"awaiting"}

\* BaseAgent.stop up to its suspension (base_agent.py:58-62): running is
\* cleared and the loop's task is cancelled; with no task to wait for, or a
\* finished one, stop goes on to unregister at once (base_agent.py:65).
StopBegin(q) ==
    /\ stopping[q] = "no"
    /\ loop[q] # "none"
    /\ running' = [running EXCEPT ![q] = FALSE]
    /\ IF loop[q] \in {"wait", "processing"}
       THEN /\ \E s \in CancelOutcomes(q) : stopping' = [stopping EXCEPT ![q] = s]
            /\ call' = NoCall
            /\ UNCHANGED agents
       ELSE /\ stopping' = [stopping EXCEPT ![q] = "done"]
            /\ agents' = unregister_agent(agents, QueueOwner[q])
            /\ call' = [NoCall EXCEPT !.op = "unregister", !.msg = QueueOwner[q]]
    /\ ev' = [NoEv EXCEPT !.kind = "stop_called", !.q = q]
    /\ UNCHANGED <<inbox, message_history, nextId, sent>>
    /\ UNCHANGED <<state, current_task, loop, handling>>
    /\ UNCHANGED <<mgrVars, timely, wrVars, coVars, lockVars, msgVars, wfVars, lcVars>>

\* LoopCancelled with the cancellation caught like an error of process_task
\* and answered with an ERROR message.
LoopCancelled_RepliesError(q) ==
    /\ stopping[q] = "awaiting"
    /\ loop[q] \in {"wait", "processing"}
    /\ IF loop[q] = "processing"
       THEN /\ TaskFinally(q)
            /\ AgentSends(inbox, send_error(nextId, QueueOwner[q], handling[q], "cancelled"))
            /\ ev' = [NoEv EXCEPT !.kind = "cancelled", !.q = q, !.msg = handling[q]]
       ELSE /\ UNCHANGED <<state, current_task>>
            /\ AgentSendsNothing(inbox)
            /\ ev' = [NoEv EXCEPT !.kind = "loop_exit", !.q = q]
    /\ loop' = [loop EXCEPT ![q] = "done"]
    /\ handling' = [handling EXCEPT ![q] = NoMsg]
    /\ UNCHANGED <<agents, running, stopping>>
    /\ UNCHANGED <<mgrVars, wrVars, coVars, lockVars, msgVars, wfVars, lcVars>>

\* The cancelled loop resumes with CancelledError at its suspension point:
\* the wait on the inbox, or the await inside process_task, where the
\* finally clause of _handle_task_message runs (CancelledError is no
\* Exception, so neither except clause catches it and nothing is sent).
LoopCancelled(q) ==
    /\ stopping[q] = "awaiting"
    /\ loop[q] \in {"wait", "processing"}
    /\ IF loop[q] = "processing"
       THEN /\ TaskFinally(q)
            /\ ev' = [NoEv EXCEPT !.kind = "cancelled", !.q = q, !.msg = handling[q]]
       ELSE /\ UNCHANGED <<state, current_task>>
            /\ ev' = [NoEv EXCEPT !.kind = "loop_exit", !.q = q]
    /\ loop' = [loop EXCEPT ![q] = "done"]
    /\ handling' = [handling EXCEPT ![q] = NoMsg]
    /\ call' = NoCall
    /\ UNCHANGED <<agents, inbox, message_history, nextId, sent, running, stopping>>
    /\ UNCHANGED <<mgrVars, timely, wrVars, coVars, lockVars, msgVars, wfVars, lcVars>>

\* StopEnd with the unregistration left out.
StopEnd_KeepsRegistration(q) ==
    /\ stopping[q] \in {"awaiting", "draining"}
    /\ loop[q] = "done"
    /\ agents' = agents
    /\ stopping' = [stopping EXCEPT ![q] = "done"]
    /\ call' = [NoCall EXCEPT !.op = "unregister", !.msg = QueueOwner[q]]
    /\ ev' = [NoEv EXCEPT !.kind = "stopped", !.q = q]
    /\ UNCHANGED <<inbox, message_history, nextId, sent>>
    /\ UNCHANGED <<running, state, current_task, loop, handling>>
    /\ UNCHANGED <<mgrVars, timely, wrVars, coVars, lockVars, msgVars, wfVars, lcVars>>

\* BaseAgent.stop after the loop's task has ended (base_agent.py:65).
StopEnd(q) ==
    /\ stopping[q] \in {"awaiting", "draining"}
    /\ loop[q] = "done"
    /\ agents' = unregister_agent(agents, QueueOwner[q])
    /\ stopping' = [stopping EXCEPT ![q] = "done"]
    /\ call' = [NoCall EXCEPT !.op = "unregister", !.msg = QueueOwner[q]]
    /\ ev' = [NoEv EXCEPT !.kind = "stopped", !.q = q]
    /\ UNCHANGED <<inbox, message_history, nextId, sent>>
    /\ UNCHANGED <<running, state, current_task, loop, handling>>
    /\ UNCHANGED <<mgrVars, timely, wrVars, coVars, lockVars, msgVars, wfVars, lcVars>>

\* ------------------------------------------ agents, with callers of the bus

\* The agent instances of the agent specification.
AgentQueues == {"q1", "q3"}

\* The messages sent to the agents: a TASK with a well-formed task mapping,
\* a TASK whose content is no mapping, a status REQUEST, and a RESULT.
AgentPayloads ==
    { [message_type |-> "task",
       content |-> [task_id |-> 101, description |-> [prefix |-> "", text |-> "d"],
                    parameters |-> "{}"]],
      [message_type |-> "task", content |-> NonMapping],
      [message_type |-> "request", content |-> [action |-> "status"]],
      [message_type |-> "result",
       content |-> [task_id |-> 100, result |-> [data |-> "r0", mentions |-> {}],
                    status |-> "completed"]] }

\* A caller sends a message to an agent through the bus.  The caller uses the
\* id a2: its replies are delivered when instance q3 is registered under
\* that id, and dropped by the bus when it is not.
EnvSend(to, from, p) ==
    /\ nextId <= MaxMsgs
    /\ LET m == Message(nextId, to, from, p.message_type, p.content, None, EmptyMeta)
           r == send_message(agents, inbox, message_history, m)
       IN /\ inbox' = r.inbox
          /\ message_history' = r.history
          /\ call' = [NoCall EXCEPT !.op = "send", !.msg = m, !.ret = r.ret]
    /\ nextId' = nextId + 1
    /\ ev' = NoEv
    /\ UNCHANGED <<agents, sent>>
    /\ UNCHANGED <<running, state, current_task, loop, handling, stopping>>
    /\ UNCHANGED <<mgrVars, timely, wrVars, coVars, lockVars, msgVars, wfVars, lcVars>>

AgentInit ==
    /\ BusCreated
    /\ AgentsCreated
    /\ ManagerCreated
    /\ WriterCreated
    /\ CoordinatorCreated
    /\ NoReply
    /\ NoWaitFor
    /\ NoLifecycle

AgentNext ==
    \/ \E q \in AgentQueues : Start(q)
    \/ \E q \in AgentQueues : StopBegin(q)
    \/ \E q \in AgentQueues : LoopCancelled(q)
    \/ \E q \in AgentQueues : LoopSwallowsCancel(q)
    \/ \E q \in AgentQueues : StopEnd(q)
    \/ \E q \in AgentQueues : ProcessMessage(q)
    \/ \E q \in AgentQueues, outcome \in Outcomes : TaskDone(q, outcome)
    \/ \E p \in AgentPayloads : EnvSend("a1", "a2", p)

SpecAgent == AgentInit /\ [][AgentNext]_vars

\* --------------------------------- start() and stop() called more than once

\* The calls of start() made on one instance.
MaxStarts == 2

\* Two agent instances created with the same agent id a1.
LcQueues == {"q1", "q2"}

\* BaseAgent.start (base_agent.py:49-54), whatever was called before: it
\* registers the inbox under the agent id, sets running and stores a new
\* task of the consumption loop in _process_task; a task stored there before
\* is not cancelled.
LcStart(q) ==
    /\ lc_pc[q] = "idle"
    /\ process_task_ref[q] < MaxStarts
    /\ agents' = register_agent(agents, QueueOwner[q], q)
    /\ running' = [running EXCEPT ![q] = TRUE]
    /\ live' = [live EXCEPT ![q] = @ \cup {process_task_ref[q] + 1}]
    /\ process_task_ref' = [process_task_ref EXCEPT ![q] = @ + 1]
    /\ call' = [NoCall EXCEPT !.op = "register", !.msg = q]
    /\ ev' = [NoEv EXCEPT !.kind = "started", !.q = q]
    /\ UNCHANGED <<inbox, message_history, nextId, sent, lc_pc, stopped>>
    /\ UNCHANGED <<state, current_task, loop, handling, stopping>>
    /\ UNCHANGED <<mgrVars, timely, wrVars, coVars, lockVars, msgVars, wfVars>>

\* BaseAgent.stop up to its suspension (base_agent.py:58-62): running is
\* cleared and the task in _process_task is cancelled and awaited; with no
\* task, or one that has ended, stop unregisters at once (base_agent.py:65).
LcStopBegin(q) ==
    /\ lc_pc[q] = "idle"
    /\ running' = [running EXCEPT ![q] = FALSE]
    /\ IF process_task_ref[q] \in live[q]
       THEN /\ lc_pc' = [lc_pc EXCEPT ![q] = "awaiting"]
            /\ call' = NoCall
            /\ UNCHANGED <<agents, stopped>>
       ELSE /\ agents' = unregister_agent(agents, QueueOwner[q])
            /\ stopped' = [stopped EXCEPT ![q] = TRUE]
            /\ call' = [NoCall EXCEPT !.op = "unregister", !.msg = QueueOwner[q]]
            /\ UNCHANGED lc_pc
    /\ ev' = [NoEv EXCEPT !.kind = "stop_called", !.q = q]
    /\ UNCHANGED <<inbox, message_history, nextId, sent, live, process_task_ref>>
    /\ UNCHANGED <<state, current_task, loop, handling, stopping>>
    /\ UNCHANGED <<mgrVars, timely, wrVars, coVars, lockVars, msgVars, wfVars>>

\* The cancelled task of the loop ends (base_agent.py:70-72): with
\* CancelledError at its wait on the inbox, or, when asyncio.wait_for drops
\* the cancellation because a message was ready, after it has handled that
\* message and found running false.  The messages here are of a kind that
\* handle_message ignores.
LcLoopCancelled(q, swallows) ==
    /\ lc_pc[q] = "awaiting"
    /\ process_task_ref[q] \in live[q]
    /\ swallows => inbox[q] # <<>>
    /\ live' = [live EXCEPT ![q] = @ \ {process_task_ref[q]}]
    /\ IF swallows
       THEN /\ inbox' = [inbox EXCEPT ![q] = Tail(@)]
            /\ ev' = [NoEv EXCEPT !.kind = "ignored", !.q = q, !.msg = Head(inbox[q])]
       ELSE /\ UNCHANGED inbox
            /\ ev' = [NoEv EXCEPT !.kind = "loop_exit", !.q = q]
    /\ call' = NoCall
    /\ UNCHANGED <<agents, message_history, nextId, sent, process_task_ref, lc_pc, stopped>>
    /\ UNCHANGED <<running, state, current_task, loop, handling, stopping>>
    /\ UNCHANGED <<mgrVars, timely, wrVars, coVars, lockVars, msgVars, wfVars>>

\* BaseAgent.stop after the awaited task has ended (base_agent.py:65).
LcStopEnd(q) ==
    /\ lc_pc[q] = "awaiting"
    /\ process_task_ref[q] \notin live[q]
    /\ agents' = unregister_agent(agents, QueueOwner[q])
    /\ lc_pc' = [lc_pc EXCEPT ![q] = "idle"]
    /\ stopped' = [stopped EXCEPT ![q] = TRUE]
    /\ call' = [NoCall EXCEPT !.op = "unregister", !.msg = QueueOwner[q]]
    /\ ev' = [NoEv EXCEPT !.kind = "stopped", !.q = q]
    /\ UNCHANGED <<inbox, message_history, nextId, sent, live, process_task_ref>>
    /\ UNCHANGED <<running, state, current_task, loop, handling, stopping>>
    /\ UNCHANGED <<mgrVars, timely, wrVars, coVars, lockVars, msgVars, wfVars>>

\* Task k of the consumption loop is not the one stop() has cancelled.
NotCancelled(q, k) == ~(lc_pc[q] = "awaiting" /\ k = process_task_ref[q])

\* A task of the consumption loop of the instance takes the next message of
\* the inbox and handles it (base_agent.py:70-73); when running is false
\* afterwards, the loop ends.
LcLoopTakes(q, k) ==
    /\ k \in live[q]
    /\ NotCancelled(q, k)
    /\ inbox[q] # <<>>
    /\ inbox' = [inbox EXCEPT ![q] = Tail(@)]
    /\ live' = [live EXCEPT ![q] = IF running[q] THEN @ ELSE @ \ {k}]
    /\ ev' = [NoEv EXCEPT !.kind = "ignored", !.q = q, !.msg = Head(inbox[q])]
    /\ call' = NoCall
    /\ UNCHANGED <<agents, message_history, nextId, sent, process_task_ref, lc_pc, stopped>>
    /\ UNCHANGED <<running, state, current_task, loop, handling, stopping>>
    /\ UNCHANGED <<mgrVars, timely, wrVars, coVars, lockVars, msgVars, wfVars>>

\* The wait of a task of the loop on the inbox times out and the loop finds
\* running false (base_agent.py:70, 74-75): the task ends.
LcLoopTimeout(q, k) ==
    /\ k \in live[q]
    /\ NotCancelled(q, k)
    /\ ~running[q]
    /\ live' = [live EXCEPT ![q] = @ \ {k}]
    /\ ev' = [NoEv EXCEPT !.kind = "loop_exit", !.q = q]
    /\ call' = NoCall
    /\ UNCHANGED <<agents, inbox, message_history, nextId, sent, process_task_ref, lc_pc,
                   stopped>>
    /\ UNCHANGED <<running, state, current_task, loop, handling, stopping>>
    /\ UNCHANGED <<mgrVars, timely, wrVars, coVars, lockVars, msgVars, wfVars>>

\* A caller sends a RESULT message to the agent id a1 through the bus.
LcSend ==
    /\ nextId <= MaxMsgs
    /\ LET m == Message(nextId, "a1", "ext", "result",
                        [task_id |-> 100, result |-> [data |-> "r0", mentions |-> {}],
                         status |-> "completed"],
                        None, EmptyMeta)
           r == send_message(agents, inbox, message_history, m)
       IN /\ inbox' = r.inbox
          /\ message_history' = r.history
          /\ call' = [NoCall EXCEPT !.op = "send", !.msg = m, !.ret = r.ret]
    /\ nextId' = nextId + 1
    /\ ev' = NoEv
    /\ UNCHANGED <<agents, sent>>
    /\ UNCHANGED <<running, state, current_task, loop, handling, stopping>>
    /\ UNCHANGED <<mgrVars, timely, wrVars, coVars, lockVars, msgVars, wfVars, lcVars>>

LifecycleNext ==
    \/ \E q \in LcQueues : LcStart(q)
    \/ \E q \in LcQueues : LcStopBegin(q)
    \/ \E q \in LcQueues, swallows \in BOOLEAN : LcLoopCancelled(q, swallows)
    \/ \E q \in LcQueues : LcStopEnd(q)
    \/ \E q \in LcQueues, k \in 1..MaxStarts : LcLoopTakes(q, k)
    \/ \E q \in LcQueues, k \in 1..MaxStarts : LcLoopTimeout(q, k)
    \/ LcSend

SpecLifecycle == AgentInit /\ [][LifecycleNext]_vars

\* ------------------------------------- one agent and messages of every kind

\* The messages sent to the agent: the payloads of AgentPayloads, a REQUEST
\* with another action and one with no action, and a message of each kind
\* that goes to handle_message.
DispatchPayloads ==
    AgentPayloads
    \cup { [message_type |-> "request", content |-> [action |-> "ping"]],
           [message_type |-> "request", content |-> [data |-> "test"]],
           [message_type |-> "request", content |-> NonMapping] }
    \cup { [message_type |-> type, content |-> content] :
              type \in {"status", "broadcast", "response", "error"},
              content \in {[data |-> "test"], NonMapping} }

DispatchNext ==
    \/ Start("q1")
    \/ Start("q3")
    \/ ProcessMessage("q1")
    \/ \E outcome \in Outcomes : TaskDone("q1", outcome)
    \/ \E p \in DispatchPayloads : EnvSend("a1", "a2", p)

SpecDispatch == AgentInit /\ [][DispatchNext]_vars

\* ---------------------------------------------------------- ManagerAgent

\* A str is the sequence of its characters.  str.lower() on the letters of
\* the descriptions (ASCII).
UpperCase ==
    <<"A", "B", "C", "D", "E", "F", "G", "H", "I", "J", "K", "L", "M", "N", "O", "P",
        "Q", "R", "S", "T", "U", "V", "W", "X", "Y", "Z">>

LowerCase ==
    <<"a", "b", "c", "d", "e", "f", "g", "h", "i", "j", "k", "l", "m", "n", "o", "p",
        "q", "r", "s", "t", "u", "v", "w", "x", "y", "z">>

ToLower ==
    [c \in {UpperCase[j] : j \in 1..Len(UpperCase)} |->
        LowerCase[CHOOSE j \in 1..Len(UpperCase) : UpperCase[j] = c]]

lower(str) ==
    [i \in 1..Len(str) |-> IF str[i] \in DOMAIN ToLower THEN ToLower[str[i]] ELSE str[i]]

\* keyword in str: keyword is a substring of str.
Contains(str, keyword) ==
    \E i \in 1..(Len(str) - Len(keyword) + 1) :
        SubSeq(str, i, i + Len(keyword) - 1) = keyword

ClimateReport ==
    <<"R", "e", "s", "e", "a", "r", "c", "h", " ", "a", "n", "d", " ", "w", "r", "i",
        "t", "e", " ", "a", " ", "r", "e", "p", "o", "r", "t", " ", "o", "n", " ",
        "c", "l", "i", "m", "a", "t", "e", " ", "c", "h", "a", "n", "g", "e">>

ClimateAnalysis ==
    <<"R", "e", "s", "e", "a", "r", "c", "h", " ", "a", "n", "d", " ", "a", "n", "a",
        "l", "y", "z", "e", " ", "c", "l", "i", "m", "a", "t", "e", " ", "c", "h",
        "a", "n", "g", "e">>

Hello == <<"h", "e", "l", "l", "o">>

\* The task descriptions given to the manager.
Descriptions == {ClimateReport, ClimateAnalysis, Hello}

ResearchKeywords ==
    { <<"r", "e", "s", "e", "a", "r", "c", "h">>,
      <<"g", "a", "t", "h", "e", "r">>,
      <<"f", "i", "n", "d">>,
      <<"i", "n", "v", "e", "s", "t", "i", "g", "a", "t", "e">> }

AnalysisKeywords ==
    { <<"a", "n", "a", "l", "y", "z", "e">>,
      <<"i", "n", "s", "i", "g", "h", "t", "s">>,
      <<"t", "r", "e", "n", "d", "s">>,
      <<"p", "a", "t", "t", "e", "r", "n", "s">> }

WritingKeywords ==
    { <<"w", "r", "i", "t", "e">>,
      <<"c", "r", "e", "a", "t", "e">>,
      <<"r", "e", "p", "o", "r", "t">>,
      <<"d", "o", "c", "u", "m", "e", "n", "t">> }

\* KeywordsIn comparing with the description as it was written.
KeywordsIn_CaseSensitive(description) ==
    {keyword \in ResearchKeywords \cup AnalysisKeywords \cup WritingKeywords :
        Contains(description, keyword)}

\* The keywords of _decompose that are substrings of description.lower().
KeywordsIn(description) ==
    {keyword \in ResearchKeywords \cup AnalysisKeywords \cup WritingKeywords :
        Contains(lower(description), keyword)}

\* One subtask of _decompose; its description is a prefix and the original.
Subtask(type, prefix, description, parameters) ==
    [type |-> type, description |-> [prefix |-> prefix, text |-> description],
     parameters |-> parameters]

\* ManagerAgent._decompose (coordinator.py:85-132).
decompose(description, parameters) ==
    LET found == KeywordsIn(description)
        research == IF found \cap ResearchKeywords # {}
                    THEN <<Subtask("research", "Research: ", description, parameters)>>
                    ELSE <<>>
        analysis == IF found \cap AnalysisKeywords # {}
                    THEN <<Subtask("analysis", "Analyze data for: ", description, parameters)>>
                    ELSE <<>>
        writing == IF found \cap WritingKeywords # {}
                   THEN <<Subtask("writing", "Write content for: ", description, parameters)>>
                   ELSE <<>>
        subtasks == research \o analysis \o writing
    IN IF subtasks = <<>>
       THEN <<Subtask("general", "", description, parameters)>>
       ELSE subtasks

\* select_agent without the default of agent_mapping.get.
select_agent_UnknownToWriter(subtask) ==
    CASE subtask.type = "research" -> "research_agent"
      [] subtask.type = "analysis" -> "analyzer_agent"
      [] subtask.type = "writing" -> "writer_agent"
      [] subtask.type = "general" -> "research_agent"
      [] OTHER -> "writer_agent"

\* ManagerAgent._select_agent (coordinator.py:134-153).
select_agent(subtask) ==
    CASE subtask.type = "research" -> "research_agent"
      [] subtask.type = "analysis" -> "analyzer_agent"
      [] subtask.type = "writing" -> "writer_agent"
      [] subtask.type = "general" -> "research_agent"
      [] OTHER -> "research_agent"

\* dispatch recording a subtask id only when its TASK was delivered.
RECURSIVE dispatch_RecordsDelivered(_, _, _, _, _)
dispatch_RecordsDelivered(subtasks, i, ib, h, id) ==
    IF i > Len(subtasks)
    THEN [inbox |-> ib, history |-> h, subtask_ids |-> <<>>, msgs |-> {}, nextId |-> id]
    ELSE LET subtask == subtasks[i]
             subtask_id == id
             m == Message(id + 1, select_agent(subtask), ManagerId, "task",
                          [task_id |-> subtask_id, description |-> subtask.description,
                           task_type |-> subtask.type, parameters |-> subtask.parameters],
                          None, EmptyMeta)
             r == send_message(agents, ib, h, m)
             rest == dispatch_RecordsDelivered(subtasks, i + 1, r.inbox, r.history, id + 2)
         IN [rest EXCEPT !.subtask_ids = (IF r.ret THEN <<subtask_id>> ELSE <<>>) \o @,
                         !.msgs = @ \cup {m}]

\* The dispatch loop of process_task (coordinator.py:61-75) from subtask i
\* on: for each subtask a fresh subtask id, then a TASK message (with a fresh
\* message id) sent to the selected agent, delivered or not.
RECURSIVE dispatch(_, _, _, _, _)
dispatch(subtasks, i, ib, h, id) ==
    IF i > Len(subtasks)
    THEN [inbox |-> ib, history |-> h, subtask_ids |-> <<>>, msgs |-> {}, nextId |-> id]
    ELSE LET subtask == subtasks[i]
             subtask_id == id
             m == Message(id + 1, select_agent(subtask), ManagerId, "task",
                          [task_id |-> subtask_id, description |-> subtask.description,
                           task_type |-> subtask.type, parameters |-> subtask.parameters],
                          None, EmptyMeta)
             r == send_message(agents, ib, h, m)
             rest == dispatch(subtasks, i + 1, r.inbox, r.history, id + 2)
         IN [rest EXCEPT !.subtask_ids = <<subtask_id>> \o @, !.msgs = @ \cup {m}]

\* The body of the loop of _gather_results (coordinator.py:170-181) on the
\* manager's inbox `queue': when the inbox is not empty its first message is
\* taken; a RESULT whose task_id is awaited is recorded, any other message is
\* dropped; message.content.get raises on a RESULT that holds no mapping.
gather_poll(queue, rem, res) ==
    IF queue = <<>>
    THEN [queue |-> queue, remaining |-> rem, results |-> res, raised |-> FALSE]
    ELSE LET message == Head(queue)
             task_id == GetId(message.content, "task_id")
         IN IF message.message_type # "result"
            THEN [queue |-> Tail(queue), remaining |-> rem, results |-> res, raised |-> FALSE]
            ELSE IF ~IsMapping(message.content)
            THEN [queue |-> Tail(queue), remaining |-> rem, results |-> res, raised |-> TRUE]
            ELSE IF task_id \in rem
            THEN [queue |-> Tail(queue), remaining |-> rem \ {task_id},
                  results |-> [t \in DOMAIN res \cup {task_id} |->
                                 IF t = task_id THEN message.content.result ELSE res[t]],
                  raised |-> FALSE]
            ELSE [queue |-> Tail(queue), remaining |-> rem, results |-> res, raised |-> FALSE]

\* The condition of the loop of _gather_results (coordinator.py:168), after
\* e poll intervals.
gather_continues(rem, e) == rem # {} /\ e < GatherPolls

\* synthesize reporting a failure when no subtask answered.
synthesize_FailsWhenEmpty(res) ==
    [summary |-> "Task completed with multiple subtask results",
     subtask_count |-> Cardinality(DOMAIN res),
     subtask_results |-> res,
     status |-> IF DOMAIN res = {} THEN "failed" ELSE "completed",
     buckets |-> EmptyMap]

\* synthesize with every test made on its own (if, not elif), so that a
\* result goes to every bucket whose word it holds.
synthesize_EveryMatchingBucket(res) ==
    LET dicts == {t \in DOMAIN res : IsMapping(res[t])}
        research == {res[t] : t \in {t \in dicts : "research" \in res[t].mentions}}
        analysis == {res[t] : t \in {t \in dicts :
                        res[t].mentions \cap {"analysis", "insights"} # {}}}
        content == {res[t] : t \in {t \in dicts : "content" \in res[t].mentions}}
        bucket == [b \in {"research", "analysis", "content"} |->
                     CASE b = "research" -> research
                       [] b = "analysis" -> analysis
                       [] OTHER -> content]
    IN [summary |-> "Task completed with multiple subtask results",
        subtask_count |-> Cardinality(DOMAIN res),
        subtask_results |-> res,
        status |-> "completed",
        buckets |-> [b \in {b \in DOMAIN bucket : bucket[b] # {}} |-> bucket[b]]]

\* ManagerAgent._synthesize (coordinator.py:192-231).  A result that is a
\* dict goes to the first bucket whose word str(result).lower() holds (the
\* words it holds are its `mentions'); a result that is no dict goes to
\* none; only the buckets that are not empty become keys of the output.
synthesize(res) ==
    LET dicts == {t \in DOMAIN res : IsMapping(res[t])}
        research == {res[t] : t \in {t \in dicts : "research" \in res[t].mentions}}
        analysis == {res[t] : t \in {t \in dicts :
                        /\ "research" \notin res[t].mentions
                        /\ res[t].mentions \cap {"analysis", "insights"} # {}}}
        content == {res[t] : t \in {t \in dicts :
                        /\ "research" \notin res[t].mentions
                        /\ res[t].mentions \cap {"analysis", "insights"} = {}
                        /\ "content" \in res[t].mentions}}
        bucket == [b \in {"research", "analysis", "content"} |->
                     CASE b = "research" -> research
                       [] b = "analysis" -> analysis
                       [] OTHER -> content]
    IN [summary |-> "Task completed with multiple subtask results",
        subtask_count |-> Cardinality(DOMAIN res),
        subtask_results |-> res,
        status |-> "completed",
        buckets |-> [b \in {b \in DOMAIN bucket : bucket[b] # {}} |-> bucket[b]]]

\* ManagerAgent.process_task up to its first suspension (coordinator.py:52-
\* 183): decompose, dispatch every subtask, record it under the parent task,
\* enter _gather_results and run the body of its loop once, then sleep.
\* ib are the inboxes and id0 the next fresh id when it starts.
BeginProcessTask(ib, task_id, description, parameters, id0) ==
    LET subtasks == decompose(description, parameters)
        d == dispatch(subtasks, 1, ib, message_history, id0)
        ids == {d.subtask_ids[i] : i \in 1..Len(d.subtask_ids)}
        g == gather_poll(d.inbox["qm"], ids, EmptyMap)
    IN /\ inbox' = [d.inbox EXCEPT !["qm"] = g.queue]
       /\ message_history' = d.history
       /\ nextId' = d.nextId
       /\ sent' = sent \cup d.msgs
       /\ subtask_ids' = d.subtask_ids
       /\ subtask_mapping' = [t \in DOMAIN subtask_mapping \cup ids |->
                                IF t \in ids THEN task_id ELSE subtask_mapping[t]]
       /\ remaining' = g.remaining
       /\ results' = g.results
       /\ elapsed' = 0
       /\ m_pc' = IF g.raised THEN "raised" ELSE "gather"
       /\ final_result' = NoFinal
       /\ call' = NoCall
       /\ UNCHANGED <<timely, wrVars, coVars, lockVars, msgVars, wfVars, lcVars>>

\* ManagerAgent.delegate_task called by a client (coordinator.py:233-254): a
\* fresh task id, then process_task.
Delegate(description) ==
    /\ m_pc = "idle"
    /\ BeginProcessTask(inbox, nextId, description, "{}", nextId + 1)
    /\ ev' = [NoEv EXCEPT !.kind = "delegate", !.q = "qm"]
    /\ UNCHANGED <<agents, running, state, current_task, loop, handling, stopping>>

\* A client sends the manager a TASK through the bus, once.
SubmitTask(description) ==
    /\ m_pc = "idle"
    /\ ManagerId \in DOMAIN agents
    /\ LET m == Message(nextId, ManagerId, "ext", "task",
                        [task_id |-> nextId + 1,
                         description |-> [prefix |-> "", text |-> description],
                         parameters |-> "{}"],
                        None, EmptyMeta)
           r == send_message(agents, inbox, message_history, m)
       IN /\ inbox' = r.inbox
          /\ message_history' = r.history
          /\ call' = [NoCall EXCEPT !.op = "send", !.msg = m, !.ret = r.ret]
    /\ nextId' = nextId + 2
    /\ m_pc' = "queued"
    /\ ev' = NoEv
    /\ UNCHANGED <<agents, sent, timely, wrVars, coVars, lockVars, msgVars, wfVars, lcVars>>
    /\ UNCHANGED <<running, state, current_task, loop, handling, stopping>>
    /\ UNCHANGED <<subtask_ids, subtask_mapping, remaining, results, elapsed, final_result>>

\* The manager's consumption loop takes the TASK (base_agent.py:72-73,
\* 103-110) and runs process_task up to its first suspension.
ManagerTakesTask ==
    /\ loop["qm"] = "wait"
    /\ running["qm"]
    /\ stopping["qm"] = "no"
    /\ inbox["qm"] # <<>>
    /\ ManagerTask("qm", Head(inbox["qm"]))
    /\ LET message == Head(inbox["qm"])
           rest == [inbox EXCEPT !["qm"] = Tail(@)]
       IN /\ state' = [state EXCEPT !["qm"] = "busy"]
          /\ current_task' = [current_task EXCEPT !["qm"] = GetId(message.content, "task_id")]
          /\ loop' = [loop EXCEPT !["qm"] = "processing"]
          /\ handling' = [handling EXCEPT !["qm"] = message]
          /\ BeginProcessTask(rest, GetId(message.content, "task_id"),
                              message.content.description.text,
                              message.content.parameters, nextId)
          /\ ev' = [NoEv EXCEPT !.kind = "task_started", !.q = "qm", !.msg = message]
    /\ UNCHANGED <<agents, running, stopping>>

\* _gather_results wakes from its sleep (coordinator.py:168-190).  While
\* subtasks remain and the deadline has not passed it runs the body of its
\* loop and sleeps again.  Otherwise it returns, process_task synthesizes and
\* returns (coordinator.py:81-83); when the consumption loop had called it,
\* _handle_task_message sends the RESULT and runs its finally clause.
ManagerPoll ==
    /\ m_pc = "gather"
    /\ LET e == elapsed + 1
           g == gather_poll(inbox["qm"], remaining, results)
           byLoop == loop["qm"] = "processing"
       IN IF gather_continues(remaining, e)
          THEN /\ remaining' = g.remaining
               /\ results' = g.results
               /\ elapsed' = e
               /\ m_pc' = IF g.raised THEN "raised" ELSE "gather"
               /\ AgentSendsNothing([inbox EXCEPT !["qm"] = g.queue])
               /\ ev' = [NoEv EXCEPT !.kind = "poll", !.q = "qm"]
               /\ UNCHANGED <<final_result, state, current_task, loop, handling>>
          ELSE /\ final_result' = synthesize(results)
               /\ elapsed' = e
               /\ m_pc' = "done"
               /\ UNCHANGED <<remaining, results>>
               /\ IF byLoop
                  THEN /\ AgentSends(inbox, ResultMessage(nextId, ManagerId, handling["qm"],
                                                          final_result'))
                       /\ TaskFinally("qm")
                       /\ loop' = [loop EXCEPT !["qm"] = "wait"]
                       /\ handling' = [handling EXCEPT !["qm"] = NoMsg]
                       /\ ev' = [NoEv EXCEPT !.kind = "returned", !.q = "qm",
                                              !.msg = handling["qm"]]
                  ELSE /\ AgentSendsNothing(inbox)
                       /\ ev' = [NoEv EXCEPT !.kind = "delegated", !.q = "qm"]
                       /\ UNCHANGED <<state, current_task, loop, handling>>
    /\ UNCHANGED <<agents, running, stopping, subtask_ids, subtask_mapping>>
    /\ UNCHANGED <<wrVars, coVars, lockVars, msgVars, wfVars, lcVars>>

\* ------------------------------------- the manager with its specialists

MgrQueues == {"qm", "qr", "qa", "qw"}

SpecialistQueues == {"qr", "qa", "qw"}

\* The agents that were started before the task is given (each by
\* BaseAgent.start): any of the manager and the three specialists.
MgrInit ==
    /\ NoReply
    /\ NoWaitFor
    /\ NoLifecycle
    /\ lock = NoHolder
    /\ bcall = [c \in Callers |-> NoOp]
    /\ inbox = [q \in Queues |-> <<>>]
    /\ message_history = <<>>
    /\ nextId = 1
    /\ call = NoCall
    /\ \E started \in SUBSET MgrQueues :
          /\ agents = [a \in {QueueOwner[q] : q \in started} |->
                         CHOOSE q \in started : QueueOwner[q] = a]
          /\ running = [q \in Queues |-> q \in started]
          /\ loop = [q \in Queues |-> IF q \in started THEN "wait" ELSE "none"]
    /\ state = [q \in Queues |-> "idle"]
    /\ current_task = [q \in Queues |-> None]
    /\ handling = [q \in Queues |-> NoMsg]
    /\ stopping = [q \in Queues |-> "no"]
    /\ ev = NoEv
    /\ sent = {}
    /\ ManagerCreated
    /\ WriterCreated
    /\ CoordinatorCreated

MgrNext ==
    \/ \E description \in Descriptions : Delegate(description)
    \/ \E description \in Descriptions : SubmitTask(description)
    \/ ManagerTakesTask
    \/ ManagerPoll
    \/ \E q \in MgrQueues : ProcessMessage(q)
    \/ \E q \in SpecialistQueues, outcome \in Outcomes : TaskDone(q, outcome)

SpecManager == MgrInit /\ [][MgrNext]_vars

\* The event loop runs every task that is ready: a sleeping _gather_results
\* is woken when its timer expires.
FairSpecManager == SpecManager /\ WF_vars(ManagerPoll)

\* ------------------------------------- decomposition and routing, called alone

\* The pieces descriptions are put together from: a capitalised keyword,
\* one in capitals, one inside a longer word, one cut in two, and text that
\* holds no keyword.
Fragments ==
    { <<"R", "e", "s", "e", "a", "r", "c", "h">>,
      <<" ", "a", "n", "d", " ">>,
      <<"W", "R", "I", "T", "E">>,
      <<"a", "n", "a", "l", "y">>,
      <<"z", "e">>,
      <<"f", "i", "n", "d", "i", "n", "g">>,
      <<"h", "e", "l", "l", "o">> }

\* The longest description, in pieces.
MaxFragments == 3

RECURSIVE Join(_)
Join(pieces) == IF pieces = <<>> THEN <<>> ELSE Head(pieces) \o Join(Tail(pieces))

\* The descriptions given to _decompose: the empty one, every run of at most
\* MaxFragments pieces, and those of the manager's tasks.
DecomposeInputs ==
    {Join(pieces) : pieces \in UNION {[1..n -> Fragments] : n \in 0..MaxFragments}}
        \cup Descriptions

\* The parameters given to _decompose.
DecomposeParameters == {"{}", "{depth: 2}"}

\* The types of the subtasks given to _select_agent: those _decompose
\* emits and two it does not.
SubtaskTypes == {"research", "analysis", "writing", "general", "translation", "RESEARCH"}

\* One call of _decompose or _select_agent is made in a behaviour: neither
\* keeps state between calls.
CallDecompose(description, parameters) ==
    /\ call.op = "none"
    /\ call' = [NoCall EXCEPT !.op = "decompose",
                              !.msg = [description |-> description,
                                       parameters |-> parameters],
                              !.ret = decompose(description, parameters)]
    /\ UNCHANGED <<agents, inbox, message_history, nextId>>
    /\ UNCHANGED agentVars
    /\ UNCHANGED <<mgrVars, timely, wrVars, coVars, lockVars, msgVars, wfVars, lcVars>>

CallSelectAgent(subtask) ==
    /\ call.op = "none"
    /\ call' = [NoCall EXCEPT !.op = "select_agent", !.msg = subtask,
                              !.ret = select_agent(subtask)]
    /\ UNCHANGED <<agents, inbox, message_history, nextId>>
    /\ UNCHANGED agentVars
    /\ UNCHANGED <<mgrVars, timely, wrVars, coVars, lockVars, msgVars, wfVars, lcVars>>

DecomposeNext ==
    \/ \E description \in DecomposeInputs, parameters \in DecomposeParameters :
          CallDecompose(description, parameters)
    \/ \E type \in SubtaskTypes, description \in Descriptions,
          parameters \in DecomposeParameters :
          CallSelectAgent(Subtask(type, "", description, parameters))

SpecDecompose == BusInit /\ [][DecomposeNext]_vars

\* ------------------------------------------------ _synthesize, called alone

\* The words _synthesize looks for in str(result).lower()
\* (coordinator.py:217-222).
BucketWords ==
    [w \in {"research", "analysis", "insights", "content"} |->
        CASE w = "research" -> <<"r", "e", "s", "e", "a", "r", "c", "h">>
          [] w = "analysis" -> <<"a", "n", "a", "l", "y", "s", "i", "s">>
          [] w = "insights" -> <<"i", "n", "s", "i", "g", "h", "t", "s">>
          [] OTHER -> <<"c", "o", "n", "t", "e", "n", "t">>]

\* The words of _synthesize that str(result).lower() holds, text being
\* str(result).
mentions_of(text) == {w \in DOMAIN BucketWords : Contains(lower(text), BucketWords[w])}

\* str(result) of the result dicts given to _synthesize: keys and values in
\* either case, with one, several or none of the words.
ResultTexts ==
    { <<"R", "e", "s", "e", "a", "r", "c", "h">>,
      <<"I", "n", "s", "i", "g", "h", "t", "s">>,
      <<"a", "n", "a", "l", "y", "s", "i", "s", " ", "r", "e", "s", "e", "a", "r", "c", "h">>,
      <<"C", "O", "N", "T", "E", "N", "T">>,
      <<"c", "o", "n", "t", "e", "n", "t", " ", "i", "n", "s", "i", "g", "h", "t", "s">>,
      <<"d", "a", "t", "a">> }

\* The results gathered: dicts, and a result that is no dict.
GatheredResults ==
    {[data |-> text, mentions |-> mentions_of(text)] : text \in ResultTexts}
    \cup {NonMapping}

\* The subtasks of one task.
MaxResults == 3

\* The result sets given to _synthesize: subtask id -> result.
ResultSets ==
    UNION {[ids -> GatheredResults] : ids \in SUBSET (1..MaxResults)}

\* One call of _synthesize is made in a behaviour: it keeps no state.
CallSynthesize(res) ==
    /\ call.op = "none"
    /\ call' = [NoCall EXCEPT !.op = "synthesize", !.msg = res, !.ret = synthesize(res)]
    /\ UNCHANGED <<agents, inbox, message_history, nextId>>
    /\ UNCHANGED agentVars
    /\ UNCHANGED <<mgrVars, timely, wrVars, coVars, lockVars, msgVars, wfVars, lcVars>>

SynthesizeNext == \E res \in ResultSets : CallSynthesize(res)

SpecSynthesize == BusInit /\ [][SynthesizeNext]_vars

\* --------------------------------------------------------- ResearchAgent

\* The float 1.0.  Scores are kept in units of 1/30000, in which the
\* reliabilities (hundredths), their mean over up to six sources, the source
\* factor (fifths) and the weighted sum are all whole numbers.
One == 30000

\* A score given in hundredths.
Score(hundredths) == hundredths * (One \div 100)

\* round(x, 2): the nearest hundredth, the even one when x is half-way.
round2(x) ==
    LET cent == One \div 100
        down == x \div cent
        rest == x - down * cent
    IN IF 2 * rest < cent THEN down * cent
       ELSE IF 2 * rest > cent THEN (down + 1) * cent
       ELSE IF down % 2 = 0 THEN down * cent ELSE (down + 1) * cent

\* ResearchAgent._search_knowledge_base (gatherer.py:122-126): the value of
\* the first key that holds the query or is held by it, else None.  A value
\* is modelled by its truth value (an empty dict is false); None is false.
RECURSIVE search_knowledge_base(_, _)
search_knowledge_base(query, knowledge_base) ==
    IF knowledge_base = <<>> THEN FALSE
    ELSE LET key == Head(knowledge_base).key
         IN IF Contains(lower(query), lower(key)) \/ Contains(lower(key), lower(query))
            THEN Head(knowledge_base).value
            ELSE search_knowledge_base(query, Tail(knowledge_base))

\* ResearchAgent._multi_source_search (gatherer.py:81-109).
multi_source_search(query, knowledge_base) ==
    (IF search_knowledge_base(query, knowledge_base)
     THEN <<[source |-> "knowledge_base", reliability |-> Score(90)]>>
     ELSE <<>>)
    \o <<[source |-> "web_search", reliability |-> Score(70)],
          [source |-> "academic", reliability |-> Score(95)]>>

RECURSIVE TotalReliability(_)
TotalReliability(search_results) ==
    IF search_results = <<>> THEN 0 ELSE Head(search_results).reliability + TotalReliability(Tail(search_results))

\* ResearchAgent._cross_check (gatherer.py:183-207).
cross_check(search_results) ==
    [sources_checked |-> Len(search_results),
     consolidated_data |-> search_results,
     reliability_score |-> IF search_results # <<>>
                           THEN TotalReliability(search_results) \div Len(search_results)
                           ELSE 0]

\* ResearchAgent._calculate_confidence (gatherer.py:219-226).
calculate_confidence(verified_results) ==
    LET sources_count == verified_results.sources_checked
        reliability == verified_results.reliability_score
        fifths == sources_count * (One \div 5)
        source_factor == IF fifths < One THEN fifths ELSE One
        confidence == (source_factor * 4) \div 10 + (reliability * 6) \div 10
    IN round2(confidence)

\* The queries and the knowledge bases (key, truth value of the data) of
\* process_task.
Queries == {<<>>, Hello, ClimateReport}

KnowledgeBases ==
    { <<>>,
      <<[key |-> <<"c", "l", "i", "m", "a", "t", "e">>, value |-> TRUE]>>,
      <<[key |-> <<"h", "e", "l", "l", "o">>, value |-> FALSE], [key |-> <<"C", "l", "i", "m", "a", "t", "e", " ", "C", "h", "a", "n", "g", "e">>, value |-> TRUE]>> }

\* The largest number of sources passed to _calculate_confidence.
MaxSources == 6

SourceCounts == (0 - 1)..MaxSources

\* The reliability scores passed to _calculate_confidence: -0.10 to 1.50 in
\* steps of 0.05.
ReliabilityScores == {Score(5 * k) : k \in (0 - 2)..30}

\* ResearchAgent.process_task (gatherer.py:46-67), its confidence; one call
\* is made in a behaviour.
CallResearch(query, knowledge_base) ==
    /\ call.op = "none"
    /\ LET search_results == multi_source_search(query, knowledge_base)
           verified_results == cross_check(search_results)
       IN call' = [NoCall EXCEPT !.op = "research",
                                 !.msg = verified_results,
                                 !.count = Len(search_results),
                                 !.ret = calculate_confidence(verified_results)]
    /\ UNCHANGED <<agents, inbox, message_history, nextId>>
    /\ UNCHANGED agentVars
    /\ UNCHANGED <<mgrVars, timely, wrVars, coVars, lockVars, msgVars, wfVars, lcVars>>

\* _calculate_confidence called on verified results of any source count and
\* reliability score.
CallCalculateConfidence(sources_count, reliability) ==
    /\ call.op = "none"
    /\ LET verified_results == [sources_checked |-> sources_count,
                                consolidated_data |-> <<>>,
                                reliability_score |-> reliability]
       IN call' = [NoCall EXCEPT !.op = "confidence",
                                 !.msg = verified_results,
                                 !.ret = calculate_confidence(verified_results)]
    /\ UNCHANGED <<agents, inbox, message_history, nextId>>
    /\ UNCHANGED agentVars
    /\ UNCHANGED <<mgrVars, timely, wrVars, coVars, lockVars, msgVars, wfVars, lcVars>>

ResearchNext ==
    \/ \E query \in Queries, knowledge_base \in KnowledgeBases :
          CallResearch(query, knowledge_base)
    \/ \E sources_count \in SourceCounts, reliability \in ReliabilityScores :
          CallCalculateConfidence(sources_count, reliability)

SpecResearch == BusInit /\ [][ResearchNext]_vars

\* ----------------------------------------------------------- WriterAgent

\* The polls of _wait_for_response before its deadline (timeout / 0.1 s).
WaitPolls == 3

\* The body of the loop of _wait_for_response (creator.py:162-169) on the
\* writer's inbox `queue', waiting for request id rid: when the inbox is not
\* empty its first message is taken; a RESULT with task_id rid is returned, a
\* RESULT with another task_id is dropped (content.get raises on a RESULT
\* that holds no mapping), and any other message is put back at the tail.
wait_poll(queue, rid) ==
    IF queue = <<>>
    THEN [queue |-> queue, found |-> FALSE, response |-> NoMsg, raised |-> FALSE]
    ELSE LET message == Head(queue)
         IN IF message.message_type = "result"
            THEN IF ~IsMapping(message.content)
                 THEN [queue |-> Tail(queue), found |-> FALSE, response |-> NoMsg,
                       raised |-> TRUE]
                 ELSE IF GetId(message.content, "task_id") = rid
                 THEN [queue |-> Tail(queue), found |-> TRUE, response |-> message,
                       raised |-> FALSE]
                 ELSE [queue |-> Tail(queue), found |-> FALSE, response |-> NoMsg,
                       raised |-> FALSE]
            ELSE [queue |-> Tail(queue) \o <<message>>, found |-> FALSE,
                  response |-> NoMsg, raised |-> FALSE]

\* The condition of the loop of _wait_for_response (creator.py:161), after
\* e poll intervals.
wait_continues(e) == e < WaitPolls

\* What the writer's process_task returns (creator.py:68-84): the content
\* has a research section when research data was received.
WriterResult(response) ==
    [data |-> IF response = NoMsg THEN "content" ELSE "content with research",
     mentions |-> {"content"}]

\* A TASK with a task mapping for the writer: its process_task is
\* WriterAgent.process_task, modelled by WriterTakesTask below.
WriterTask(q, message) ==
    q = "qw" /\ message.message_type = "task" /\ IsMapping(message.content)

\* Where process_task stands after a pass of the loop of _wait_for_response
\* with outcome w: the response was found and _generate sleeps, or
\* content.get raised, or the loop sleeps before its next pass.
AfterWaitPoll(w) ==
    CASE w.raised -> "raised"
      [] w.found -> "generate"
      [] OTHER -> "wait"

\* WriterAgent.process_task up to its first suspension (creator.py:48-61,
\* 96-108, 159-171), with needs_research: a fresh request id, the TASK sent
\* to research_agent, then the first pass of the loop of _wait_for_response.
\* ib are the inboxes when it starts.
BeginWriterTask(ib, topic) ==
    LET rid == nextId
        m == Message(nextId + 1, "research_agent", "writer_agent", "task",
                     [task_id |-> rid,
                      description |-> [prefix |-> "Research: ", text |-> topic],
                      parameters |-> "{query}"],
                     None, EmptyMeta)
        r == send_message(agents, ib, message_history, m)
        w == wait_poll(r.inbox["qw"], rid)
    IN /\ inbox' = [r.inbox EXCEPT !["qw"] = w.queue]
       /\ message_history' = r.history
       /\ nextId' = nextId + 2
       /\ sent' = sent \cup {m}
       /\ call' = [NoCall EXCEPT !.op = "send", !.msg = m, !.ret = r.ret]
       /\ request_id' = rid
       /\ w_elapsed' = 0
       /\ w_response' = w.response
       /\ w_pc' = AfterWaitPoll(w)
       /\ UNCHANGED <<timely, mgrVars, coVars, lockVars, msgVars, wfVars, lcVars>>

\* A client calls process_task on the writer (test_collaboration.py:95-105).
WriterCall(topic) ==
    /\ w_pc = "idle"
    /\ loop["qw"] # "processing"
    /\ BeginWriterTask(inbox, topic)
    /\ ev' = [NoEv EXCEPT !.kind = "writer_called", !.q = "qw"]
    /\ UNCHANGED <<agents, running, state, current_task, loop, handling, stopping>>

\* The writer's consumption loop takes a TASK (base_agent.py:72-73, 103-110)
\* and runs process_task up to its first suspension.
WriterTakesTask ==
    /\ w_pc = "idle"
    /\ loop["qw"] = "wait"
    /\ running["qw"]
    /\ stopping["qw"] = "no"
    /\ inbox["qw"] # <<>>
    /\ WriterTask("qw", Head(inbox["qw"]))
    /\ LET message == Head(inbox["qw"])
       IN /\ state' = [state EXCEPT !["qw"] = "busy"]
          /\ current_task' = [current_task EXCEPT !["qw"] = GetId(message.content, "task_id")]
          /\ loop' = [loop EXCEPT !["qw"] = "processing"]
          /\ handling' = [handling EXCEPT !["qw"] = message]
          /\ BeginWriterTask([inbox EXCEPT !["qw"] = Tail(@)],
                             message.content.description.text)
          /\ ev' = [NoEv EXCEPT !.kind = "task_started", !.q = "qw", !.msg = message]
    /\ UNCHANGED <<agents, running, stopping>>

\* The end of _handle_task_message for the writer (base_agent.py:110-130):
\* the reply is sent, then the finally clause.
WriterReplies(ib, answer, kind) ==
    /\ AgentSends(ib, answer)
    /\ TaskFinally("qw")
    /\ loop' = [loop EXCEPT !["qw"] = "wait"]
    /\ handling' = [handling EXCEPT !["qw"] = NoMsg]
    /\ ev' = [NoEv EXCEPT !.kind = kind, !.q = "qw", !.msg = handling["qw"]]

\* _wait_for_response wakes from its sleep (creator.py:161-173).  Before the
\* deadline it makes a pass of its loop; at the deadline it returns None and
\* _generate starts.  An error raised by content.get leaves process_task;
\* when the consumption loop had called it, the ERROR reply is sent.
WriterPoll ==
    /\ w_pc = "wait"
    /\ LET e == w_elapsed + 1
           w == wait_poll(inbox["qw"], request_id)
           ib == [inbox EXCEPT !["qw"] = w.queue]
       IN /\ w_elapsed' = e
          /\ IF wait_continues(e)
             THEN /\ w_pc' = AfterWaitPoll(w)
                  /\ w_response' = w.response
                  /\ IF w.raised /\ loop["qw"] = "processing"
                     THEN WriterReplies(ib, send_error(nextId, "writer_agent",
                                                       handling["qw"], NoGetError), "raised")
                     ELSE /\ AgentSendsNothing(ib)
                          /\ ev' = [NoEv EXCEPT !.kind = "wait_poll", !.q = "qw"]
                          /\ UNCHANGED <<state, current_task, loop, handling>>
             ELSE /\ w_pc' = "generate"
                  /\ w_response' = NoMsg
                  /\ AgentSendsNothing(inbox)
                  /\ ev' = [NoEv EXCEPT !.kind = "wait_timeout", !.q = "qw"]
                  /\ UNCHANGED <<state, current_task, loop, handling>>
    /\ UNCHANGED <<agents, running, stopping, request_id>>
    /\ UNCHANGED <<mgrVars, coVars, lockVars, msgVars, wfVars, lcVars>>

\* _generate wakes from its sleep and process_task returns (creator.py:196-
\* 84); when the consumption loop had called it, the RESULT is sent.
WriterFinish ==
    /\ w_pc = "generate"
    /\ w_pc' = "done"
    /\ IF loop["qw"] = "processing"
       THEN WriterReplies(inbox, ResultMessage(nextId, "writer_agent", handling["qw"],
                                               WriterResult(w_response)), "returned")
       ELSE /\ AgentSendsNothing(inbox)
            /\ ev' = [NoEv EXCEPT !.kind = "writer_returned", !.q = "qw"]
            /\ UNCHANGED <<state, current_task, loop, handling>>
    /\ UNCHANGED <<agents, running, stopping, request_id, w_elapsed, w_response>>
    /\ UNCHANGED <<mgrVars, coVars, lockVars, msgVars, wfVars, lcVars>>

\* ---------------------------------- the writer with the research agent

WriterQueues == {"qw", "qr"}

\* The messages sent to the writer while it works: a TASK, a status
\* REQUEST, a RESPONSE, and a RESULT for a request it does not wait for.
WriterPayloads ==
    { [message_type |-> "task",
       content |-> [task_id |-> 101, description |-> [prefix |-> "", text |-> "t"],
                    parameters |-> "{}"]],
      [message_type |-> "request", content |-> [action |-> "status"]],
      [message_type |-> "response", content |-> [note |-> "n"]],
      [message_type |-> "result",
       content |-> [task_id |-> 100, result |-> [data |-> "r0", mentions |-> {}],
                    status |-> "completed"]] }

\* The consumption loop of the writer handles a message that is no TASK for
\* its process_task.
WriterProcessMessage ==
    /\ inbox["qw"] # <<>>
    /\ ~WriterTask("qw", Head(inbox["qw"]))
    /\ ProcessMessage("qw")

\* The agents that were started before the writer is used.
WriterInit ==
    /\ NoReply
    /\ NoWaitFor
    /\ NoLifecycle
    /\ lock = NoHolder
    /\ bcall = [c \in Callers |-> NoOp]
    /\ inbox = [q \in Queues |-> <<>>]
    /\ message_history = <<>>
    /\ nextId = 1
    /\ call = NoCall
    /\ \E started \in SUBSET WriterQueues :
          /\ agents = [a \in {QueueOwner[q] : q \in started} |->
                         CHOOSE q \in started : QueueOwner[q] = a]
          /\ running = [q \in Queues |-> q \in started]
          /\ loop = [q \in Queues |-> IF q \in started THEN "wait" ELSE "none"]
    /\ state = [q \in Queues |-> "idle"]
    /\ current_task = [q \in Queues |-> None]
    /\ handling = [q \in Queues |-> NoMsg]
    /\ stopping = [q \in Queues |-> "no"]
    /\ ev = NoEv
    /\ sent = {}
    /\ ManagerCreated
    /\ WriterCreated
    /\ CoordinatorCreated

WriterNext ==
    \/ WriterCall("t")
    \/ WriterTakesTask
    \/ WriterPoll
    \/ WriterFinish
    \/ WriterProcessMessage
    \/ ProcessMessage("qr")
    \/ \E outcome \in Outcomes : TaskDone("qr", outcome)
    \/ \E p \in WriterPayloads : EnvSend("writer_agent", "ext", p)

SpecWriter == WriterInit /\ [][WriterNext]_vars

\* ----------------------------------------------------------- Coordinator

\* The passes of the loop of wait_for_results before its deadline.
CoPolls == 2

\* The TASK message of assign_task (coordination.py:50-60).
AssignMessage(id, task_id, agent_id, from_agent) ==
    Message(id, agent_id, from_agent, "task",
            [task_id |-> task_id, description |-> [prefix |-> "", text |-> "d"],
             task_type |-> "research", parameters |-> "{}"],
            None, EmptyMeta)

\* assign_task recording the task whatever the bus returned.
assign_task_RecordsAlways(ag, ib, h, m, st, act, asg) ==
    LET r == send_message(ag, ib, h, m)
        task_id == m.content.task_id
    IN [ret |-> r.ret, inbox |-> r.inbox, history |-> r.history,
        status |-> [st EXCEPT ![task_id] = "in_progress"],
        active |-> act \cup {task_id},
        assignments |-> [t \in DOMAIN asg \cup {task_id} |->
                           IF t = task_id THEN m.to ELSE asg[t]]]

\* Coordinator.assign_task (coordination.py:62-70) for the TASK message m,
\* on the Task statuses st, active_tasks act and task_assignments asg.
assign_task(ag, ib, h, m, st, act, asg) ==
    LET r == send_message(ag, ib, h, m)
        task_id == m.content.task_id
    IN IF r.ret
       THEN [ret |-> TRUE, inbox |-> r.inbox, history |-> r.history,
             status |-> [st EXCEPT ![task_id] = "in_progress"],
             active |-> act \cup {task_id},
             assignments |-> [t \in DOMAIN asg \cup {task_id} |->
                                IF t = task_id THEN m.to ELSE asg[t]]]
       ELSE [ret |-> FALSE, inbox |-> r.inbox, history |-> r.history,
             status |-> st, active |-> act, assignments |-> asg]

\* Coordinator.cancel_task (coordination.py:204-209).
cancel_task(st, act, task_id) ==
    IF task_id \in act
    THEN [ret |-> TRUE, status |-> [st EXCEPT ![task_id] = "cancelled"]]
    ELSE [ret |-> FALSE, status |-> st]

\* What wait_for_results does with the message msg that wait_for_message
\* returned for task t (coordination.py:106-113); NoMsg is None.
co_take(w, t, msg) ==
    IF msg # NoMsg /\ msg.message_type = "result" /\ GetId(msg.content, "task_id") = t
    THEN [w EXCEPT !.remaining = @ \ {t},
                   !.results = [x \in DOMAIN @ \cup {t} |->
                                  IF x = t THEN msg.content.result ELSE @[x]],
                   !.status = [@ EXCEPT ![t] = "completed"]]
    ELSE w

\* The pass of wait_for_results over the task ids `todo' (coordination.py:
\* 93-113) up to its next suspension: wait_for_message returns at once when
\* the history holds a message of the assigned agent, and suspends (sleeps)
\* when it holds none.
RECURSIVE co_pass(_, _)
co_pass(w, todo) ==
    IF todo = <<>>
    THEN [w EXCEPT !.todo = <<>>]
    ELSE LET t == Head(todo)
         IN IF t \notin active_tasks
            THEN co_pass(w, Tail(todo))
            ELSE LET msg == wait_scan(message_history, task_assignments[t], None)
                 IN IF msg = NoMsg
                    THEN [w EXCEPT !.todo = todo]
                    ELSE co_pass(co_take(w, t, msg), Tail(todo))

\* list(remaining_tasks), in ascending order of the ids.
RECURSIVE SetToSeq(_)
SetToSeq(S) ==
    IF S = {} THEN <<>>
    ELSE LET x == CHOOSE y \in S : \A z \in S : y <= z
         IN <<x>> \o SetToSeq(S \ {x})

\* The state of wait_for_results as a record.
CoState ==
    [remaining |-> c_remaining, results |-> c_results, status |-> task_status,
     todo |-> c_todo]

\* wait_for_results goes on from the state w: it waits inside
\* wait_for_message when the pass is suspended, and otherwise sleeps before
\* the next pass (coordination.py:115).
CoContinue(w) ==
    /\ c_remaining' = w.remaining
    /\ c_results' = w.results
    /\ task_status' = w.status
    /\ c_todo' = w.todo
    /\ c_pc' = IF w.todo # <<>> THEN "wait_msg" ELSE "sleep"

CoFrame ==
    /\ UNCHANGED <<agents, inbox, message_history, nextId>>
    /\ UNCHANGED agentVars
    /\ UNCHANGED <<mgrVars, timely, wrVars, lockVars, msgVars, wfVars, lcVars>>

\* Coordinator.assign_task called by a client.
CoAssign(task_id, agent_id, from_agent) ==
    /\ nextId <= MaxMsgs
    /\ LET m == AssignMessage(nextId, task_id, agent_id, from_agent)
           r == assign_task(agents, inbox, message_history, m,
                            task_status, active_tasks, task_assignments)
       IN /\ inbox' = r.inbox
          /\ message_history' = r.history
          /\ task_status' = r.status
          /\ active_tasks' = r.active
          /\ task_assignments' = r.assignments
          /\ call' = [NoCall EXCEPT !.op = "assign", !.msg = m, !.ret = r.ret]
    /\ nextId' = nextId + 1
    /\ UNCHANGED <<agents, c_pc, c_remaining, c_todo, c_results, c_elapsed, c_recorded>>
    /\ UNCHANGED agentVars
    /\ UNCHANGED <<mgrVars, timely, wrVars, lockVars, msgVars, wfVars, lcVars>>

\* Coordinator.cancel_task called by a client.
CoCancel(task_id) ==
    /\ LET r == cancel_task(task_status, active_tasks, task_id)
       IN /\ task_status' = r.status
          /\ call' = [NoCall EXCEPT !.op = "cancel", !.msg = task_id, !.ret = r.ret]
    /\ UNCHANGED <<active_tasks, task_assignments, c_pc, c_remaining, c_todo, c_results,
                   c_elapsed, c_recorded>>
    /\ CoFrame

\* The history holds a RESULT message for the assigned task t that was sent
\* by the agent the task is assigned to.
ResultRecorded(t) ==
    /\ t \in active_tasks
    /\ t \in DOMAIN task_assignments
    /\ \E i \in 1..Len(message_history) :
          /\ message_history[i].message_type = "result"
          /\ message_history[i].from_ = task_assignments[t]
          /\ GetId(message_history[i].content, "task_id") = t

\* Coordinator.wait_for_results called by a client for the task ids `ids`
\* (coordination.py:87-115), up to its first suspension.
CoWaitForResults(ids) ==
    /\ c_pc \in {"idle", "done"}
    /\ c_elapsed' = 0
    /\ c_recorded' = {t \in ids : ResultRecorded(t)}
    /\ CoContinue(co_pass([CoState EXCEPT !.remaining = ids, !.results = EmptyMap],
                          SetToSeq(ids)))
    /\ call' = NoCall
    /\ UNCHANGED <<active_tasks, task_assignments>>
    /\ CoFrame

\* wait_for_message returns to wait_for_results: the newest message of the
\* assigned agent in the history, or None when its timeout has passed with
\* no such message; the pass then goes on with the next task ids.
CoWaitReturns ==
    /\ c_pc = "wait_msg"
    /\ LET t == Head(c_todo)
           msg == wait_scan(message_history, task_assignments[t], None)
       IN CoContinue(co_pass(co_take(CoState, t, msg), Tail(c_todo)))
    /\ call' = NoCall
    /\ UNCHANGED <<active_tasks, task_assignments, c_elapsed, c_recorded>>
    /\ CoFrame

\* wait_for_results wakes from its sleep (coordination.py:91, 115-123):
\* another pass while tasks remain before the deadline; otherwise the
\* remaining active tasks are marked FAILED and the results are returned.
CoWake ==
    /\ c_pc = "sleep"
    /\ c_elapsed' = c_elapsed + 1
    /\ IF c_remaining # {} /\ c_elapsed + 1 < CoPolls
       THEN /\ CoContinue(co_pass(CoState, SetToSeq(c_remaining)))
            /\ call' = NoCall
       ELSE /\ task_status' = [t \in TaskIds |->
                                 IF t \in c_remaining /\ t \in active_tasks
                                 THEN "failed" ELSE task_status[t]]
            /\ c_pc' = "done"
            /\ call' = [NoCall EXCEPT !.op = "results", !.msg = c_results]
            /\ UNCHANGED <<c_remaining, c_todo, c_results>>
    /\ UNCHANGED <<active_tasks, task_assignments, c_recorded>>
    /\ CoFrame

\* ------------------------------ the coordinator with the research agent

\* The research agent is started, and a client inbox is registered as a1.
CoordinatorInit ==
    /\ NoReply
    /\ NoWaitFor
    /\ NoLifecycle
    /\ lock = NoHolder
    /\ bcall = [c \in Callers |-> NoOp]
    /\ inbox = [q \in Queues |-> <<>>]
    /\ message_history = <<>>
    /\ nextId = 1
    /\ call = NoCall
    /\ agents = [a \in {"research_agent", "a1"} |->
                   IF a = "a1" THEN "q1" ELSE "qr"]
    /\ running = [q \in Queues |-> q = "qr"]
    /\ loop = [q \in Queues |-> IF q = "qr" THEN "wait" ELSE "none"]
    /\ state = [q \in Queues |-> "idle"]
    /\ current_task = [q \in Queues |-> None]
    /\ handling = [q \in Queues |-> NoMsg]
    /\ stopping = [q \in Queues |-> "no"]
    /\ ev = NoEv
    /\ sent = {}
    /\ ManagerCreated
    /\ WriterCreated
    /\ CoordinatorCreated

\* The assignments that clients ask for: both tasks to the started research
\* agent with replies to the client inbox a1, and a task to the analyzer
\* agent, which was not started, with the default requester id.
Assignments ==
    { [task_id |-> 201, agent_id |-> "research_agent", from_agent |-> "a1"],
      [task_id |-> 202, agent_id |-> "research_agent", from_agent |-> "a1"],
      [task_id |-> 202, agent_id |-> "analyzer_agent", from_agent |-> "coordinator"] }

\* The task id lists given to wait_for_results.
AwaitedSets == {{201, 202}}

CoordinatorNext ==
    \/ \E a \in Assignments : CoAssign(a.task_id, a.agent_id, a.from_agent)
    \/ \E t \in TaskIds : CoCancel(t)
    \/ \E ids \in AwaitedSets : CoWaitForResults(ids)
    \/ CoWaitReturns
    \/ CoWake
    \/ ProcessMessage("qr")
    \/ \E outcome \in Outcomes : TaskDone("qr", outcome)

SpecCoordinator == CoordinatorInit /\ [][CoordinatorNext]_vars

\* ------------------- the coordinator with the default requester id

\* The id that assign_task gives as sender when the caller names none
\* (coordination.py:37).  No inbox is registered under it.
DefaultFromAgent == "coordinator"

\* The assignments that clients ask for: both tasks to the started research
\* agent with the default requester id, and the second task also with
\* replies to the client inbox a1.
DefaultAssignments ==
    { [task_id |-> 201, agent_id |-> "research_agent", from_agent |-> DefaultFromAgent],
      [task_id |-> 202, agent_id |-> "research_agent", from_agent |-> DefaultFromAgent],
      [task_id |-> 202, agent_id |-> "research_agent", from_agent |-> "a1"] }

\* A status REQUEST, sent with the default requester id as sender.
StatusPing == [message_type |-> "request", content |-> [action |-> "status"]]

DefaultSenderNext ==
    \/ \E a \in DefaultAssignments : CoAssign(a.task_id, a.agent_id, a.from_agent)
    \/ \E ids \in AwaitedSets : CoWaitForResults(ids)
    \/ CoWaitReturns
    \/ CoWake
    \/ ProcessMessage("qr")
    \/ \E outcome \in Outcomes : TaskDone("qr", outcome)
    \/ EnvSend("research_agent", DefaultFromAgent, StatusPing)

SpecDefaultSender == CoordinatorInit /\ [][DefaultSenderNext]_vars

\* ------------------------------------------------------- claims on the bus

\* The message ids of the messages in the inboxes and in the history.
KnownIds ==
    UNION {{inbox[q][i].message_id : i \in 1..Len(inbox[q])} : q \in Queues} \cup
    {message_history[i].message_id : i \in 1..Len(message_history)}

\* C1: a send of m whose recipient is registered returns true, and m itself
\* (same message id) becomes the last element of the recipient's inbox and
\* the last element of the history; no other inbox changes.
C1_SendDelivers ==
    [][ (call'.op = "send" /\ call'.msg.to \in DOMAIN agents) =>
          /\ call'.ret = TRUE
          /\ inbox' = [inbox EXCEPT ![agents[call'.msg.to]] = Append(@, call'.msg)]
          /\ message_history' = Append(message_history, call'.msg)
          /\ agents' = agents ]_vars

\* A send that was delivered into an inbox that already held a message.
C1_Witness ==
    /\ call.op = "send" /\ call.ret
    /\ Len(inbox[agents[call.msg.to]]) >= 2
    /\ Len(message_history) >= 2

\* C2: a send of m whose recipient is not registered returns false, and
\* leaves the history, the registry and every inbox unchanged.
C2_SendUnregistered ==
    [][ (call'.op = "send" /\ call'.msg.to \notin DOMAIN agents) =>
          /\ call'.ret = FALSE
          /\ UNCHANGED <<agents, inbox, message_history>> ]_vars

\* A send that failed while the history and an inbox were not empty.
C2_Witness ==
    /\ call.op = "send" /\ ~call.ret
    /\ message_history # <<>>
    /\ \E q \in Queues : inbox[q] # <<>>

\* C3: a broadcast of m enqueues one message into exactly the inboxes of the
\* registered agents that are neither m.from_ nor excluded, returns their
\* number, and appends exactly the original m to the history, also when the
\* number is zero.
C3_BroadcastCount ==
    [][ call'.op = "broadcast" =>
          LET m == call'.msg
              reached == {a \in DOMAIN agents : a # m.from_ /\ a \notin call'.exclude}
          IN /\ call'.count = Cardinality(reached)
             /\ \A q \in Queues :
                   IF \E a \in reached : agents[a] = q
                   THEN Len(inbox'[q]) = Len(inbox[q]) + 1
                   ELSE inbox'[q] = inbox[q]
             /\ message_history' = Append(message_history, m)
             /\ \A q \in Queues :
                   Len(inbox'[q]) > Len(inbox[q]) =>
                      inbox'[q][Len(inbox'[q])].message_id # m.message_id ]_vars

\* A broadcast that reached two agents.
C3_Witness == call.op = "broadcast" /\ call.count = 2

\* C4: every message a broadcast of m places in a recipient's inbox is a new
\* message with to = the recipient, kind BROADCAST, and m's sender, payload
\* and metadata; each recipient gets exactly one, at the tail of its inbox;
\* the sender and the excluded agents get none.
C4_BroadcastCopies ==
    [][ call'.op = "broadcast" =>
          LET m == call'.msg IN
          \A a \in DOMAIN agents :
             LET q == agents[a] IN
             IF a # m.from_ /\ a \notin call'.exclude
             THEN /\ Len(inbox'[q]) = Len(inbox[q]) + 1
                  /\ SubSeq(inbox'[q], 1, Len(inbox[q])) = inbox[q]
                  /\ LET c == inbox'[q][Len(inbox'[q])]
                     IN /\ c.to = a
                        /\ c.message_type = "broadcast"
                        /\ c.from_ = m.from_
                        /\ c.content = m.content
                        /\ c.metadata = m.metadata
                        /\ c.message_id \notin KnownIds \cup {m.message_id}
             ELSE inbox'[q] = inbox[q] ]_vars

\* A broadcast of a message of another kind, with metadata, from a
\* registered sender, that reached an agent whose inbox was not empty.
C4_Witness ==
    /\ call.op = "broadcast" /\ call.count = 1
    /\ call.msg.message_type # "broadcast" /\ call.msg.metadata # EmptyMeta
    /\ call.msg.from_ \in DOMAIN agents
    /\ \E q \in Queues : Len(inbox[q]) >= 2

\* ---------------------------------------------------- claims on the agents

\* The last element of a sequence that is not empty.
Last(seq) == seq[Len(seq)]

\* The last bus call delivered its message at the tail of the recipient's
\* inbox and of the history, or the recipient was not registered.
ReplyDelivery ==
    /\ call.ret = (call.msg.to \in DOMAIN agents)
    /\ call.ret =>
          /\ inbox[agents[call.msg.to]] # <<>>
          /\ Last(inbox[agents[call.msg.to]]) = call.msg
          /\ message_history # <<>>
          /\ Last(message_history) = call.msg

\* C5: when the process_task of a started agent returns for a TASK message
\* with a task mapping that the bus delivered to it, the agent sends a RESULT
\* message to the TASK's sender, correlated to the TASK's message id, with
\* content {task_id of the TASK, the result, status "completed"}; it is
\* delivered when the sender is registered.
C5_TaskResult ==
    ev.kind = "returned" =>
       /\ ev.msg.message_type = "task"
       /\ ev.msg.to = QueueOwner[ev.q]
       /\ \E i \in 1..Len(message_history) : message_history[i] = ev.msg
       /\ call.op = "send"
       /\ call.msg.message_type = "result"
       /\ call.msg.to = ev.msg.from_
       /\ call.msg.from_ = QueueOwner[ev.q]
       /\ call.msg.correlation_id = ev.msg.message_id
       /\ call.msg.message_id # ev.msg.message_id
       /\ call.msg.content = [task_id |-> ev.msg.content.task_id, result |-> ev.result,
                              status |-> "completed"]
       /\ ReplyDelivery

\* A process_task has returned and its RESULT was delivered to the sender.
C5_Witness == ev.kind = "returned" /\ call.op = "send" /\ call.ret

\* C6: when process_task raises while a TASK message is handled, the agent
\* sends an ERROR message to the TASK's sender, correlated to the TASK's
\* message id, with the error text and the original message id as content,
\* and it never sends a RESULT for that TASK.
C6_TaskError ==
    ev.kind = "raised" =>
       /\ call.op = "send"
       /\ call.msg.message_type = "error"
       /\ call.msg.to = ev.msg.from_
       /\ call.msg.from_ = QueueOwner[ev.q]
       /\ call.msg.correlation_id = ev.msg.message_id
       /\ call.msg.content = [error |-> ev.error, original_message_id |-> ev.msg.message_id]
       /\ ReplyDelivery
       /\ \A m \in sent :
             m.correlation_id = ev.msg.message_id => m.message_type = "error"

\* A process_task has raised and its ERROR was delivered to the sender.
C6_Witness == ev.kind = "raised" /\ call.op = "send" /\ call.ret

\* C7: after the handling of a TASK message has ended (process_task
\* returned, raised or was cancelled, or the content was no mapping), the
\* agent's state is idle and its current task is none.
C7_IdleAfterTask ==
    ev.kind \in {"returned", "raised", "cancelled", "malformed"} =>
       /\ state[ev.q] = "idle"
       /\ current_task[ev.q] = None


\* ------------------------------------------------- claims on the manager

\* The RESULT messages for dispatched subtasks that the bus delivered to the
\* manager's inbox while enough polls of the gather loop were left to take them.
TimelyResults ==
    {m \in {message_history[i] : i \in 1..Len(message_history)} :
        /\ m.message_id \in timely
        /\ m.to = ManagerId
        /\ m.message_type = "result"
        /\ IsMapping(m.content)
        /\ \E i \in 1..Len(subtask_ids) : subtask_ids[i] = GetId(m.content, "task_id")}

\* The TASK messages of the dispatch that reached a registered specialist.
DeliveredSubtasks ==
    {m \in {message_history[i] : i \in 1..Len(message_history)} :
        m.from_ = ManagerId /\ m.message_type = "task"}

\* C8: when process_task runs on a started manager, every RESULT for a
\* dispatched subtask id that is delivered to the manager's inbox before the
\* gather deadline is in the gathered result set with the RESULT's result
\* value, whatever the interleaving with the manager's consumption loop.
C8_GatherCollects ==
    (running["qm"] /\ m_pc = "done") =>
        \A m \in TimelyResults :
            /\ m.content.task_id \in DOMAIN results
            /\ results[m.content.task_id] = m.content.result

\* C9: when 2 subtasks are dispatched and only one of the two agents ever
\* replies, gather completes by the deadline plus one poll interval and
\* returns a result set of size exactly 1 that holds the answered subtask.
C9_GatherPartial ==
    ( /\ m_pc = "done"
      /\ Len(subtask_ids) = 2
      /\ Cardinality(DeliveredSubtasks) = 1
      /\ Cardinality(TimelyResults) = 1 ) =>
        /\ elapsed <= GatherPolls
        /\ \A m \in TimelyResults :
              /\ DOMAIN results = {m.content.task_id}
              /\ results[m.content.task_id] = m.content.result

\* C10: process_task always terminates without raising and returns a
\* synthesized result whose status is "completed", whichever of the routed
\* specialists reply before the deadline, none of them and unregistered
\* specialists included.
C10_AlwaysCompletes ==
    /\ [](m_pc # "raised")
    /\ [](m_pc = "done" => final_result.status = "completed")
    /\ (m_pc = "gather") ~> (m_pc = "done" /\ final_result.status = "completed")

\* Two subtasks were dispatched, the writer is not registered, one result
\* was gathered, and the task is reported completed.
C10_Witness ==
    /\ m_pc = "done"
    /\ Len(subtask_ids) = 2
    /\ "writer_agent" \notin DOMAIN agents
    /\ Cardinality(DOMAIN results) = 1
    /\ final_result.status = "completed"
    /\ final_result.subtask_count = 1


\* -------------------------------------------------- claims on the writer

\* The kinds of step in which a consumption loop takes a message from its
\* inbox and dispatches it.
HandlingKinds == {"task_started", "malformed", "request_failed", "status_sent", "ignored"}

\* The position in the history h of the message with the given id: the
\* order in which the bus delivered the messages.
DeliveryIndex(h, id) == CHOOSE i \in 1..Len(h) : h[i].message_id = id

\* C11: an agent handles the messages of its inbox in the order the bus
\* delivered them, also while one of its own wait loops reads that inbox:
\* when its consumption loop starts to handle a message, no message that was
\* delivered to the same inbox earlier is still waiting in it.
C11_HandledInOrder ==
    [][ \A q \in Queues :
          (ev'.kind \in HandlingKinds /\ ev'.q = q /\ inbox[q] # <<>>) =>
              \A i \in 1..Len(inbox'[q]) :
                  DeliveryIndex(message_history', inbox'[q][i].message_id)
                      > DeliveryIndex(message_history', ev'.msg.message_id) ]_vars


\* ------------------------------------------------- claims on the bus lock

\* C12: under every interleaving of send, register and unregister on the
\* same agent id, a send either finds the id unregistered and returns false
\* with no enqueue, or enqueues into the inbox registered for the id at the
\* moment of the enqueue and returns true; nothing is enqueued into an inbox
\* whose id was unregistered or re-registered with another inbox.
C12_SendAtomic ==
    [][ /\ \A q \in Queues :
              inbox'[q] # inbox[q] =>
                  /\ call'.op = "send" /\ call'.ret
                  /\ call'.msg.to \in DOMAIN agents
                  /\ agents[call'.msg.to] = q
                  /\ inbox'[q] = Append(inbox[q], call'.msg)
        /\ (call'.op = "send" /\ ~call'.ret) =>
              /\ call'.msg.to \notin DOMAIN agents
              /\ inbox' = inbox ]_vars

\* A send was delivered into the second inbox of a1 after a caller had
\* replaced the first, which holds an earlier message, while the other
\* caller is waiting for the lock with a call of its own.
C12_Witness ==
    /\ call.op = "send" /\ call.ret
    /\ inbox["q1"] # <<>>
    /\ inbox["q2"] # <<>>
    /\ Last(inbox["q2"]) = call.msg
    /\ \E c \in Callers : bcall[c].pc = "acquire" /\ bcall[c].op = "unregister"


\* ----------------------------------------------- claims on the lifecycle

\* C13: when start() returns the agent is running and its id is registered
\* with its own inbox, and its loop consumes only while that registration
\* stands; when stop() returns the agent is not running, its loop has
\* terminated and its id is not registered, the unregistration coming only
\* after the loop has exited.
C13_Lifecycle ==
    \A q \in Queues :
        LET id == QueueOwner[q]
        IN /\ (ev.kind = "started" /\ ev.q = q) =>
                 running[q] /\ loop[q] = "wait" /\ id \in DOMAIN agents /\ agents[id] = q
           /\ loop[q] \in {"wait", "processing"} =>
                 id \in DOMAIN agents /\ agents[id] = q
           /\ stopping[q] = "done" =>
                 ~running[q] /\ loop[q] = "done" /\ id \notin DOMAIN agents

\* stop() has returned for an agent that had been sent a TASK.
C13_Witness ==
    /\ ev.kind = "stopped"
    /\ stopping[ev.q] = "done"
    /\ \E i \in 1..Len(message_history) :
          /\ message_history[i].message_type = "task"
          /\ message_history[i].to = QueueOwner[ev.q]


\* The replies (RESULT or ERROR) that agents have sent for the message m.
RepliesTo(m) ==
    {r \in sent : r.correlation_id = m.message_id /\ r.message_type \in {"result", "error"}}

\* C14: stop() is cooperative: the loop exits between messages only, so a
\* TASK whose handling has started when stop() is called is handled to its
\* end, its RESULT or ERROR reply being sent, before the loop exits.
C14_StopCompletesHandling ==
    \A q \in Queues :
        (loop[q] = "done" /\ ev.q = q /\ ev.msg.message_type = "task"
            /\ ev.kind \in {"cancelled", "returned", "raised"}) =>
                RepliesTo(ev.msg) # {}


\* ------------------------------------------------- claims on the history

\* C15: the history is append-only: across every bus operation the history
\* before a step is a prefix of the history after it, and the one entry a
\* step may add comes from a successful send or from a broadcast.
C15_HistoryAppendOnly ==
    [][ /\ Len(message_history') >= Len(message_history)
        /\ SubSeq(message_history', 1, Len(message_history)) = message_history
        /\ Len(message_history') <= Len(message_history) + 1
        /\ Len(message_history') = Len(message_history) + 1 =>
              \/ call'.op = "send" /\ call'.ret
              \/ call'.op = "broadcast" ]_vars


\* --------------------------------------------- claims on the Coordinator

TerminalStatuses == {"completed", "failed", "cancelled"}

\* C16: once the status of a Task is COMPLETED, FAILED or CANCELLED it never
\* changes again, under any later assign, wait_for_results or cancel call.
C16_TerminalStatusStable ==
    [][ \A t \in TaskIds :
          task_status[t] \in TerminalStatuses => task_status'[t] = task_status[t] ]_vars

\* C17: assign_task returns the bus's delivery boolean for the TASK message
\* it sends; when true the task is IN_PROGRESS, active and assigned to the
\* agent; when false the task's status, the active tasks and the assignments
\* are unchanged.
C17_AssignReturnsDelivery ==
    [][ call'.op = "assign" =>
          LET m == call'.msg
              t == m.content.task_id
          IN /\ call'.ret = (m.to \in DOMAIN agents)
             /\ call'.ret =>
                   /\ inbox' = [inbox EXCEPT ![agents[m.to]] = Append(@, m)]
                   /\ message_history' = Append(message_history, m)
                   /\ task_status'[t] = "in_progress"
                   /\ active_tasks' = active_tasks \cup {t}
                   /\ task_assignments'[t] = m.to
                   /\ \A x \in DOMAIN task_assignments \ {t} :
                         task_assignments'[x] = task_assignments[x]
                   /\ \A x \in TaskIds \ {t} : task_status'[x] = task_status[x]
             /\ ~call'.ret =>
                   UNCHANGED <<task_status, active_tasks, task_assignments, inbox,
                               message_history>> ]_vars

\* An assignment to the unregistered analyzer agent has just failed for a
\* task that is in progress at the research agent.
C17_Witness ==
    /\ call.op = "assign" /\ ~call.ret
    /\ call.msg.content.task_id \in active_tasks
    /\ task_status[call.msg.content.task_id] = "in_progress"
    /\ task_assignments[call.msg.content.task_id] = "research_agent"

\* C18: registration replaces and never duplicates: register(a, q) on an id
\* that is already registered leaves one entry for a, mapping to q, leaves
\* every other entry, every inbox and the history as they were, and a later
\* send to a is enqueued into the inbox a is mapped to and into no other.
C18_RegisterReplaces ==
    [][ /\ call'.op = "register" =>
             LET q == call'.msg
                 a == QueueOwner[q]
             IN /\ DOMAIN agents' = DOMAIN agents \cup {a}
                /\ agents'[a] = q
                /\ \A b \in DOMAIN agents \ {a} : agents'[b] = agents[b]
                /\ UNCHANGED <<inbox, message_history>>
        /\ (call'.op = "send" /\ call'.msg.to \in DOMAIN agents) =>
             /\ call'.ret
             /\ inbox' = [inbox EXCEPT ![agents[call'.msg.to]] = Append(@, call'.msg)]
      ]_vars

\* a1 was registered with q1, which received a message, then with q2, and
\* the last send to a1 went into q2 and not into q1.
C18_Witness ==
    /\ call.op = "send"
    /\ call.msg.to = "a1"
    /\ call.ret
    /\ "a1" \in DOMAIN agents
    /\ agents["a1"] = "q2"
    /\ inbox["q1"] # <<>>
    /\ \A i \in 1..Len(inbox["q1"]) : inbox["q1"][i] # call.msg
    /\ inbox["q2"] # <<>>
    /\ Last(inbox["q2"]) = call.msg

\* C19: unregister(agent_id) removes the mapping of agent_id when there is
\* one and does nothing when there is none; every other entry, every inbox
\* and the history stay as they were, and a send to an id that is not
\* registered returns false and delivers and records nothing.
C19_UnregisterFrame ==
    [][ /\ call'.op = "unregister" =>
             LET a == call'.msg
             IN /\ DOMAIN agents' = DOMAIN agents \ {a}
                /\ \A b \in DOMAIN agents' : agents'[b] = agents[b]
                /\ a \notin DOMAIN agents => agents' = agents
                /\ UNCHANGED <<inbox, message_history>>
        /\ (call'.op = "send" /\ call'.msg.to \notin DOMAIN agents) =>
             /\ ~call'.ret
             /\ UNCHANGED <<inbox, message_history>>
      ]_vars

\* a1 had been registered (its inbox q1 received a message) and was
\* unregistered while a2 stayed registered; the send to a1 that followed
\* returned false.
C19_Witness ==
    /\ call.op = "send"
    /\ call.msg.to = "a1"
    /\ ~call.ret
    /\ inbox["q1"] # <<>>
    /\ "a1" \notin DOMAIN agents
    /\ "a2" \in DOMAIN agents

\* C20: original.reply(content) is a new message addressed to the sender of
\* original, sent from its recipient, correlated with its message_id and
\* carrying the given content; original is left unchanged.
C20_Reply ==
    [][ call'.op = "reply" =>
          /\ replied'.to = original.from_
          /\ replied'.from_ = original.to
          /\ replied'.correlation_id = original.message_id
          /\ replied'.content = call'.msg
          /\ replied'.message_id # original.message_id
          /\ original' = original
      ]_vars

\* A reply was made to a message between two different agents that itself
\* carried a correlation_id.
C20_Witness ==
    /\ call.op = "reply"
    /\ original.to # original.from_
    /\ original.correlation_id # None
    /\ replied.to = original.from_
    /\ replied.from_ = original.to
    /\ replied.correlation_id = original.message_id

\* The categories of _decompose in the order it tests them.
Categories == <<"research", "analysis", "writing">>

CategoryKeywords(c) ==
    CASE c = "research" -> ResearchKeywords
      [] c = "analysis" -> AnalysisKeywords
      [] OTHER -> WritingKeywords

\* The category has a keyword contained in the lower-cased description.
Matches(description, c) ==
    \E keyword \in CategoryKeywords(c) : Contains(lower(description), keyword)

\* C21: _decompose emits one subtask for each category that has a keyword
\* contained in the lower-cased description, in the order research,
\* analysis, writing, each with the parameters it was given; it emits the
\* single subtask "general" with the description as given exactly when no
\* category matches; the climate report yields research then writing.
C21_Decompose ==
    call.op = "decompose" =>
        LET description == call.msg.description
            out == call.ret
            matching == {i \in 1..3 : Matches(description, Categories[i])}
        IN /\ \A i \in 1..3 :
                 Cardinality({k \in 1..Len(out) : out[k].type = Categories[i]})
                     = IF i \in matching THEN 1 ELSE 0
           /\ \A k \in 1..Len(out) : out[k].parameters = call.msg.parameters
           /\ \A k \in 1..Len(out) : out[k].description.text = description
           /\ \A k, l \in 1..Len(out) :
                 (k < l /\ out[k].type # "general" /\ out[l].type # "general") =>
                    \E i, j \in 1..3 : /\ i < j
                                        /\ out[k].type = Categories[i]
                                        /\ out[l].type = Categories[j]
           /\ Len(out) = IF matching = {} THEN 1 ELSE Cardinality(matching)
           /\ matching = {} <=>
                 out = <<[type |-> "general",
                          description |-> [prefix |-> "", text |-> description],
                          parameters |-> call.msg.parameters]>>
           /\ \A k \in 1..Len(out) : out[k].type = "general" => matching = {}
           /\ description = ClimateReport =>
                 [k \in 1..Len(out) |-> out[k].type] = <<"research", "writing">>

\* The climate report with parameters of its own was decomposed into a
\* research and a writing subtask.
C21_Witness ==
    /\ call.op = "decompose"
    /\ call.msg.description = ClimateReport
    /\ call.msg.parameters = "{depth: 2}"
    /\ Len(call.ret) = 2
    /\ call.ret[1].type = "research"
    /\ call.ret[2].type = "writing"

\* C22: _select_agent sends research to research_agent, analysis to
\* analyzer_agent, writing to writer_agent, general and every other type to
\* research_agent.
C22_Routing ==
    call.op = "select_agent" =>
        LET type == call.msg.type
        IN /\ type = "research" => call.ret = "research_agent"
           /\ type = "analysis" => call.ret = "analyzer_agent"
           /\ type = "writing" => call.ret = "writer_agent"
           /\ type = "general" => call.ret = "research_agent"
           /\ type \notin {"research", "analysis", "writing", "general"} =>
                 call.ret = "research_agent"

\* A subtask of a type the table does not hold was routed.
C22_Witness ==
    /\ call.op = "select_agent"
    /\ call.msg.type = "translation"
    /\ call.ret = "research_agent"

\* C23: get_status is consistent with the handling of TASKs: while an agent
\* handles a TASK (from the moment the TASK is dispatched to its handler
\* until the handling ends) it reports busy, a workload above 0.0 and the
\* task id of that TASK; at every other moment it reports idle, workload 0.0
\* and no current task.
C23_StatusConsistency ==
    \A q \in AgentQueues :
        LET status == get_status(state[q], current_task[q], Capabilities[q])
        IN IF loop[q] = "processing"
           THEN /\ status.state = "busy"
                /\ status.workload > 0
                /\ status.current_task = GetId(handling[q].content, "task_id")
           ELSE /\ status.state = "idle"
                /\ status.workload = 0
                /\ status.current_task = None

\* The steps in which the handling of a message failed.
ErrorKinds == {"malformed", "request_failed", "raised"}

\* C24: an error raised while a message is handled does not end the
\* consumption loop: the step sends an ERROR correlated to the failing
\* message towards its sender, and the loop of an agent that still runs
\* waits on its inbox again, where it takes the messages that follow.
C24_ErrorsKeepLoop ==
    [][ ev'.kind \in ErrorKinds =>
          LET q == ev'.q
              failing == ev'.msg
          IN /\ call'.op = "send"
             /\ call'.msg.message_type = "error"
             /\ call'.msg.to = failing.from_
             /\ call'.msg.from_ = QueueOwner[q]
             /\ call'.msg.correlation_id = failing.message_id
             /\ running'[q] => (loop'[q] = "wait" /\ stopping'[q] = "no")
      ]_vars

\* After an ERROR reply of agent a1, a message created later was taken from
\* the inbox and handled by the same agent.
C24_Witness ==
    /\ ev.q = "q1"
    /\ ev.kind \in {"task_started", "status_sent", "ignored"}
    /\ \E m \in sent : /\ m.message_type = "error"
                       /\ m.from_ = "a1"
                       /\ m.message_id < ev.msg.message_id

\* C25: get_history(agent_id, limit) returns the messages of the history
\* that agent_id sent or received (all of them when no agent_id is given),
\* in arrival order, trimmed to the last `limit' of them when a limit is
\* given, a limit of 0 giving the empty list; the history is left unchanged.
C25_HistoryQuery ==
    [][ call'.op = "history" =>
          LET agent_id == call'.msg.agent_id
              limit == call'.msg.limit
              Involves(msg) == msg.from_ = agent_id \/ msg.to = agent_id
              matching == IF agent_id = "" THEN message_history
                          ELSE SelectSeq(message_history, Involves)
          IN /\ call'.ret = IF limit = NoLimit THEN matching
                            ELSE SubSeq(matching,
                                        IF limit >= Len(matching) THEN 1
                                        ELSE Len(matching) - limit + 1,
                                        Len(matching))
             /\ message_history' = message_history
      ]_vars

\* The messages of the history h that wait_for_message looks for.
WaitMatches(h) ==
    {i \in 1..Len(h) :
        /\ h[i].from_ = wf_agent_id'
        /\ wf_correlation_id' = None \/ h[i].correlation_id = wf_correlation_id'}

\* C26: wait_for_message returns a message only when it is in the history,
\* was sent by agent_id and carries the correlation id when one is given,
\* and then the newest such message; it returns None only once the timeout
\* has elapsed, and every poll it made before had no match in the history.
C26_WaitFor ==
    [][ /\ (wf_pc # "returned" /\ wf_pc' = "returned" /\ wf_result' # NoMsg) =>
             /\ WaitMatches(message_history) # {}
             /\ \E i \in WaitMatches(message_history) :
                   /\ message_history[i] = wf_result'
                   /\ \A j \in WaitMatches(message_history) : j <= i
        /\ (wf_pc # "returned" /\ wf_pc' = "returned" /\ wf_result' = NoMsg) =>
             wf_elapsed' >= wf_timeout'
        /\ (wf_pc' = "sleeping" /\ (wf_pc = "idle" \/ wf_elapsed' # wf_elapsed)) =>
             /\ WaitMatches(message_history) = {}
             /\ wf_elapsed' < wf_timeout'
      ]_vars

\* The wait returned the newer of two messages of the agent that carry the
\* correlation id, after at least one poll that found none.
C26_Witness ==
    /\ wf_pc = "returned"
    /\ wf_result # NoMsg
    /\ wf_correlation_id # None
    /\ wf_elapsed > 0
    /\ Cardinality({i \in 1..Len(message_history) :
                      /\ message_history[i].from_ = wf_agent_id
                      /\ message_history[i].correlation_id = wf_correlation_id}) > 1
    /\ wf_result = message_history[Len(message_history)]

\* C27: the confidence the research agent computes lies within [0.0, 1.0],
\* for every query and knowledge base given to process_task and for every
\* source count and reliability score given to the confidence computation.
C27_ConfidenceBound ==
    call.op \in {"research", "confidence"} => (0 <= call.ret /\ call.ret <= One)

\* The ids (message ids, task ids) in use: those below the next fresh one.
UsedIds == 1..(nextId - 1)

\* C28: process_task sends, for every subtask of the decomposition and in
\* its order, one TASK message with a fresh subtask id to the routed agent,
\* and records the subtask id under the parent task id; the subtask id is
\* recorded, and awaited by gather, also when the routed agent is not
\* registered and the TASK was not delivered.
C28_Dispatch ==
    [][ (m_pc \in {"idle", "queued"} /\ m_pc' \in {"gather", "raised"}) =>
          LET tasks == sent' \ sent
              byLoop == loop'["qm"] = "processing"
          IN \E description \in Descriptions :
               LET subtasks == decompose(description, "{}")
                   n == Len(subtasks)
               IN /\ byLoop => handling'["qm"].content.description.text = description
                  /\ Len(subtask_ids') = n
                  /\ Cardinality(tasks) = n
                  /\ \A i \in 1..n :
                       /\ subtask_ids'[i] \notin UsedIds
                       /\ \A j \in 1..n : i # j => subtask_ids'[i] # subtask_ids'[j]
                       /\ \E m \in tasks :
                            /\ m.content.task_id = subtask_ids'[i]
                            /\ m.message_type = "task"
                            /\ m.from_ = ManagerId
                            /\ m.to = select_agent(subtasks[i])
                            /\ m.content.task_type = subtasks[i].type
                            /\ m.content.description = subtasks[i].description
                            /\ m.content.parameters = subtasks[i].parameters
                            /\ \A k \in tasks :
                                 k.content.task_id = subtask_ids'[i] => k = m
                            /\ \A j \in 1..n, k \in tasks :
                                 (i < j /\ k.content.task_id = subtask_ids'[j]) =>
                                    m.message_id < k.message_id
                            /\ (\E x \in 1..Len(message_history') : message_history'[x] = m)
                                  <=> m.to \in DOMAIN agents
                       /\ subtask_ids'[i] \in DOMAIN subtask_mapping'
                       /\ subtask_mapping'[subtask_ids'[i]] =
                            IF byLoop THEN GetId(handling'["qm"].content, "task_id")
                            ELSE nextId
                       /\ subtask_ids'[i] \in remaining'
      ]_vars

\* Two subtasks were dispatched; the TASK of one of them went to an agent
\* that is not registered, and gather waits for both.
C28_Witness ==
    /\ m_pc = "gather"
    /\ Len(subtask_ids) = 2
    /\ \A i \in 1..2 : subtask_ids[i] \in remaining
    /\ \E m \in sent :
         /\ m.from_ = ManagerId
         /\ m.message_type = "task"
         /\ m.to \notin DOMAIN agents
         /\ m.content.task_id \in remaining
         /\ \A x \in 1..Len(message_history) : message_history[x] # m
    /\ \E m \in sent :
         /\ m.from_ = ManagerId
         /\ m.message_type = "task"
         /\ m.to \in DOMAIN agents


\* ------------------------------------------------------------------ C29

\* The history holds exactly one TASK message for task t.
AssignedOnce(t) ==
    Cardinality({i \in 1..Len(message_history) :
                    /\ message_history[i].message_type = "task"
                    /\ GetId(message_history[i].content, "task_id") = t}) = 1

\* C29: when wait_for_results returns, every awaited, assigned task whose
\* RESULT was recorded in the history before the deadline (here: already
\* when the call was made) is in the returned results with a result value
\* of a RESULT for it and is COMPLETED, also when the agent was assigned
\* several awaited tasks or has sent other messages since.  A task that was
\* cancelled or that was assigned more than once is left aside.
C29_WaitCollects ==
    call.op = "results" =>
        \A t \in c_recorded :
            (AssignedOnce(t) /\ task_status[t] # "cancelled") =>
                /\ t \in DOMAIN c_results
                /\ \E i \in 1..Len(message_history) :
                      /\ message_history[i].message_type = "result"
                      /\ GetId(message_history[i].content, "task_id") = t
                      /\ c_results[t] = message_history[i].content.result
                /\ task_status[t] = "completed"

\* ------------------------------------------------------------------ C30

\* The messages of a sequence.
Elements(seq) == {seq[i] : i \in 1..Len(seq)}

\* The events by which the consumption loop hands a message of each kind to
\* its handler.
HandlerEvents(message) ==
    CASE message.message_type = "task" -> {"task_started", "malformed"}
      [] message.message_type = "request" -> {"status_sent", "request_failed", "ignored"}
      [] OTHER -> {"ignored"}

\* C30: a message delivered to the inbox of a running agent leaves the inbox
\* only when the agent's consumption loop takes it and dispatches it to the
\* handler of its kind; no other code path of the recipient removes it and
\* discards it.  A RESULT that the manager's gather takes and records in its
\* result set is not discarded and is left aside.
C30_OnlyTheLoopTakes ==
    [][ \A q \in MgrQueues :
          (running[q] /\ stopping[q] = "no") =>
             \A message \in Elements(inbox[q]) \ Elements(inbox'[q]) :
                \/ /\ ev'.q = q
                   /\ ev'.msg = message
                   /\ ev'.kind \in HandlerEvents(message)
                \/ /\ q = "qm"
                   /\ message.message_type = "result"
                   /\ GetId(message.content, "task_id") \in DOMAIN results' \ DOMAIN results
      ]_vars


\* ------------------------------------------------------------------ C31

\* C31: when stop() is called while a TASK is in mid-processing, the loop is
\* cancelled inside process_task: no reply for the TASK was sent and none is
\* sent by that step, and the agent becomes idle with no current task.  From
\* then on (stop() waiting for the loop, and after stop() has returned) the
\* instance sends no message, and once its loop has ended its state and
\* current task stay as they are.
C31_StopMidTask ==
    [][ /\ ev'.kind = "cancelled" =>
              /\ loop[ev'.q] = "processing"
              /\ ev'.msg = handling[ev'.q]
              /\ RepliesTo(ev'.msg) = {}
              /\ sent' = sent
              /\ message_history' = message_history
              /\ inbox' = inbox
              /\ state'[ev'.q] = "idle"
              /\ current_task'[ev'.q] = None
        /\ \A q \in AgentQueues :
              /\ stopping[q] \in {"awaiting", "done"} =>
                    \A m \in sent' \ sent : m.from_ # QueueOwner[q]
              /\ (stopping[q] \in {"awaiting", "done"} /\ loop[q] = "done") =>
                    /\ state'[q] = state[q]
                    /\ current_task'[q] = current_task[q]
                    /\ loop'[q] = "done"
      ]_vars

\* stop() was called while a TASK was in mid-processing, the TASK's sender
\* being registered, and stop() has returned.
C31_Witness ==
    \E q \in AgentQueues :
        /\ stopping[q] = "done"
        /\ state[q] = "idle"
        /\ \E i \in 1..Len(message_history) :
              LET m == message_history[i]
              IN /\ m.message_type = "task"
                 /\ IsMapping(m.content)
                 /\ m.to = QueueOwner[q]
                 /\ m.from_ \in DOMAIN agents
                 /\ RepliesTo(m) = {}
                 /\ \A j \in 1..Len(inbox[q]) : inbox[q][j] # m


\* ------------------------------------------------------------------ C32

\* The instance is registered on the bus with its own inbox.
Reachable(q) ==
    /\ QueueOwner[q] \in DOMAIN agents
    /\ agents[QueueOwner[q]] = q

\* C32: stopped is terminal: an instance on which a call of stop() has
\* returned is never again registered with a consumption loop running, and
\* no instance ever has more than one consumption loop running.
C32_StoppedIsTerminal ==
    \A q \in LcQueues :
        /\ stopped[q] => ~(Reachable(q) /\ running[q] /\ live[q] # {})
        /\ Cardinality(live[q]) <= 1


\* ------------------------------------------------------------------ C38

\* C38: every instance that has been started and not yet stopped (running
\* is set and no call of stop() is under way) is reachable: the registry
\* maps its agent id to the instance's own inbox, also for two instances
\* that use the same id.
C38_StartedIsReachable ==
    \A q \in LcQueues :
        (running[q] /\ lc_pc[q] = "idle") => Reachable(q)


\* ------------------------------------------------------------------ C33

\* The message is a REQUEST whose payload has action "status".
StatusRequest(message) ==
    /\ message.message_type = "request"
    /\ IsMapping(message.content)
    /\ "action" \in DOMAIN message.content
    /\ message.content.action = "status"

\* C33: a step of the loop that takes a REQUEST with action "status" sends
\* exactly one message: a STATUS message to the requester, correlated to the
\* request's message id, whose content is the state, current task,
\* capabilities and workload that get_status() gives at that moment; it is
\* the only message ever sent for that request.  A step that takes a REQUEST
\* with a mapping payload and any other action hands it to handle_message
\* and sends nothing.
C33_StatusRequest ==
    [][ \A q \in AgentQueues :
          (loop[q] = "wait" /\ inbox[q] # <<>> /\ inbox'[q] = Tail(inbox[q])
             /\ Head(inbox[q]).message_type = "request"
             /\ IsMapping(Head(inbox[q]).content)) =>
             LET message == Head(inbox[q])
             IN IF StatusRequest(message)
                THEN /\ ev'.kind = "status_sent" /\ ev'.q = q /\ ev'.msg = message
                     /\ call'.op = "send"
                     /\ sent' \ sent = {call'.msg}
                     /\ {m \in sent' : m.correlation_id = message.message_id} = {call'.msg}
                     /\ call'.msg.message_type = "status"
                     /\ call'.msg.to = message.from_
                     /\ call'.msg.from_ = QueueOwner[q]
                     /\ call'.msg.correlation_id = message.message_id
                     /\ call'.msg.content =
                           [state |-> state[q], current_task |-> current_task[q],
                            capabilities |-> Capabilities[q],
                            workload |-> IF state[q] = "busy" THEN 5 ELSE 0]
                     /\ call'.ret = (message.from_ \in DOMAIN agents)
                     /\ state'[q] = state[q] /\ current_task'[q] = current_task[q]
                ELSE /\ ev'.kind = "ignored" /\ ev'.q = q /\ ev'.msg = message
                     /\ sent' = sent
                     /\ message_history' = message_history
                     /\ call'.op # "send"
      ]_vars

\* A status REQUEST was answered by an agent whose state was busy, the
\* STATUS message being delivered to the requester.
C33_Witness ==
    /\ ev.kind = "status_sent"
    /\ call.op = "send" /\ call.ret
    /\ call.msg.content.state = "busy"
    /\ call.msg.content.capabilities # <<>>


\* ------------------------------------------------------------------ C34

\* The kinds of message that go to handle_message whatever their content.
IgnoredKinds == {"status", "broadcast", "result", "response", "error"}

\* C34: a step of the loop that takes a STATUS, BROADCAST, RESULT, RESPONSE
\* or ERROR message, whatever its content, hands it to handle_message, sends
\* no message (no ERROR reply to an ERROR in particular) and leaves the
\* agent's state and current task unchanged.
C34_IgnoredKinds ==
    [][ \A q \in AgentQueues :
          (loop[q] = "wait" /\ inbox[q] # <<>> /\ inbox'[q] = Tail(inbox[q])
             /\ Head(inbox[q]).message_type \in IgnoredKinds) =>
             /\ ev'.kind = "ignored" /\ ev'.q = q /\ ev'.msg = Head(inbox[q])
             /\ sent' = sent
             /\ message_history' = message_history
             /\ nextId' = nextId
             /\ call'.op # "send"
             /\ \A r \in Queues \ {q} : inbox'[r] = inbox[r]
             /\ state'[q] = state[q]
             /\ current_task'[q] = current_task[q]
             /\ loop'[q] = "wait"
      ]_vars

\* An ERROR message whose sender is registered was handled by a busy agent.
C34_Witness ==
    /\ ev.kind = "ignored"
    /\ ev.msg.message_type = "error"
    /\ ev.msg.from_ \in DOMAIN agents
    /\ state[ev.q] = "busy"


\* ------------------------------------------------------------------ C35

\* The buckets of _synthesize.
Buckets == {"research", "analysis", "content"}

\* The words that put a result in bucket b.
WordsOf(b) == IF b = "analysis" THEN {"analysis", "insights"} ELSE {b}

\* C35: for every result set, _synthesize returns subtask_count equal to the
\* number of gathered results, subtask_results equal to the gathered map and
\* status "completed"; every result is in at most one of the buckets
\* research, analysis, content, a result in a bucket is a gathered dict
\* whose text holds a word of that bucket, and a bucket is a key of the
\* output if and only if it is not empty.
C35_Synthesize ==
    call.op = "synthesize" =>
        LET res == call.msg
            out == call.ret
        IN /\ out.subtask_count = Cardinality(DOMAIN res)
           /\ out.subtask_results = res
           /\ out.status = "completed"
           /\ DOMAIN out.buckets \subseteq Buckets
           /\ \A b \in DOMAIN out.buckets :
                 /\ out.buckets[b] # {}
                 /\ \A r \in out.buckets[b] :
                       /\ \E t \in DOMAIN res : res[t] = r
                       /\ IsMapping(r)
                       /\ r.mentions \cap WordsOf(b) # {}
           /\ \A t \in DOMAIN res :
                 Cardinality({b \in DOMAIN out.buckets : res[t] \in out.buckets[b]}) <= 1
           /\ \A t \in DOMAIN res :
                 (IsMapping(res[t]) /\ res[t].mentions # {}) =>
                     \E b \in DOMAIN out.buckets : res[t] \in out.buckets[b]

\* _synthesize was given a result whose text holds the words of two buckets,
\* one that holds none and one that is no dict, and one bucket is a key.
C35_Witness ==
    /\ call.op = "synthesize"
    /\ \E t \in DOMAIN call.msg :
          IsMapping(call.msg[t]) /\ Cardinality(call.msg[t].mentions) = 2
    /\ \E t \in DOMAIN call.msg :
          IsMapping(call.msg[t]) /\ call.msg[t].mentions = {}
    /\ \E t \in DOMAIN call.msg : ~IsMapping(call.msg[t])
    /\ Cardinality(DOMAIN call.ret.buckets) = 1


\* ------------------------------------------------------------------ C36

\* The RESULT messages for request id rid that the bus delivered to the
\* writer.
DeliveredResponses(rid) ==
    {m \in Elements(message_history) :
        /\ m.to = "writer_agent"
        /\ m.message_type = "result"
        /\ IsMapping(m.content)
        /\ GetId(m.content, "task_id") = rid}

\* C36: _wait_for_response for request id r returns only a RESULT whose
\* task_id is r; when it returns None at its deadline, no RESULT for r was
\* delivered to the writer and taken out of its inbox (one that is still in
\* the inbox came after the last pass), also when process_task was called
\* directly on a started writer; and a pass keeps in the inbox every message
\* that is no RESULT.
C36_WaitReturnsResponse ==
    [][/\ (ev'.kind \in {"wait_poll", "writer_called", "task_started"}
             /\ ev'.q = "qw" /\ w_response' # NoMsg)
          => /\ w_response'.message_type = "result"
             /\ GetId(w_response'.content, "task_id") = request_id'
       /\ ev'.kind = "wait_timeout"
          => DeliveredResponses(request_id) \subseteq Elements(inbox["qw"])
       /\ ev'.kind \in {"wait_poll", "writer_called"}
          => {m \in Elements(inbox["qw"]) : m.message_type # "result"}
                \subseteq Elements(inbox'["qw"])]_vars


\* ------------------------------------------------------------------ C37

\* The TASK messages that the bus delivered to an agent instance.
DeliveredTasks ==
    {m \in Elements(message_history) :
        m.message_type = "task" /\ m.to \in {QueueOwner[q] : q \in AgentQueues}}

\* C37: for each TASK message the loop of an agent handles, the agent sends
\* at most one reply correlated to the TASK's message id, a RESULT or an
\* ERROR and never both, whether process_task returns or raises, the content
\* is no mapping, or stop() is called during the processing; and no reply
\* exists while the TASK is still being processed or waits in the inbox.
C37_OneReplyPerTask ==
    /\ \A m \in DeliveredTasks :
          /\ Cardinality(RepliesTo(m)) <= 1
          /\ \A r \in sent :
                r.correlation_id = m.message_id =>
                   /\ r.message_type \in {"result", "error"}
                   /\ r.from_ = m.to
                   /\ r.to = m.from_
                   /\ (~IsMapping(m.content) => r.message_type = "error")
          /\ (\E q \in AgentQueues : m \in Elements(inbox[q])) => RepliesTo(m) = {}
    /\ \A q \in AgentQueues :
          loop[q] = "processing" => RepliesTo(handling[q]) = {}

\* Three TASKs were handled by the agent: one whose process_task returned,
\* one whose process_task raised, and one whose content is no mapping.
C37_Witness ==
    \E m1, m2, m3 \in DeliveredTasks :
        /\ \E r \in RepliesTo(m1) : r.message_type = "result"
        /\ IsMapping(m2.content)
        /\ \E r \in RepliesTo(m2) : r.message_type = "error"
        /\ ~IsMapping(m3.content)
        /\ RepliesTo(m3) # {}


\* ------------------------------------------------------------------ C39

\* The replies that agents passed to the bus for a requester id that is not
\* registered.
LostReplies ==
    {r \in sent : /\ r.message_type \in {"result", "error", "status"}
                  /\ r.to \notin DOMAIN agents}

\* Every TASK message for task t in the history was sent with the default
\* requester id.
AssignedByDefault(t) ==
    \A m \in Elements(message_history) :
        (m.message_type = "task" /\ GetId(m.content, "task_id") = t)
            => m.from_ = DefaultFromAgent

\* C39: a reply (RESULT, ERROR or STATUS) to a requester id that is not
\* registered is in no inbox and not in the history, the bus returns false
\* for it, and no second message is sent for the same request.  Hence, when
\* wait_for_results returns at its deadline, an awaited assigned task for
\* which the history holds no RESULT of the assigned agent, and so every
\* task that was only assigned with the default requester id, is not in the
\* returned results and is FAILED.
C39_RepliesToNobody ==
    /\ \A r \in LostReplies :
          /\ r \notin Elements(message_history)
          /\ \A q \in Queues : r \notin Elements(inbox[q])
          /\ \A r2 \in sent : r2.correlation_id = r.correlation_id => r2 = r
          /\ (call.op = "send" /\ call.msg = r) => call.ret = FALSE
    /\ call.op = "results" =>
          \A t \in TaskIds \cap active_tasks :
              (~ResultRecorded(t) \/ AssignedByDefault(t)) =>
                  /\ t \notin DOMAIN call.msg
                  /\ task_status[t] = "failed"

\* wait_for_results has returned with no result for a task that was assigned
\* with the default requester id only and that the research agent has
\* processed: its RESULT was passed to the bus and lost, and a STATUS reply
\* was lost too.
C39_Witness ==
    /\ call.op = "results"
    /\ \E t \in TaskIds \cap active_tasks :
          /\ AssignedByDefault(t)
          /\ task_status[t] = "failed"
          /\ \E r \in LostReplies :
                r.message_type = "result" /\ GetId(r.content, "task_id") = t
    /\ \E r \in LostReplies : r.message_type = "status"


\* ------------------------------------------------------------------ C40

\* The loop of instance q has taken a TASK whose content is no mapping.
MalformedHandled(q) ==
    \E m \in Elements(message_history) :
        /\ m.to = QueueOwner[q]
        /\ m.message_type = "task"
        /\ ~IsMapping(m.content)
        /\ m \notin Elements(inbox[q])

\* C40: for an agent that was started once and whose handled TASKs all had
\* a mapping content, every STATUS reply its loop sends reports state idle,
\* workload 0.0 and no current task: the loop answers a status REQUEST only
\* between two messages, never while a TASK is being processed.
C40_StatusNeverBusy ==
    [][ (ev'.kind = "status_sent" /\ ~MalformedHandled(ev'.q)) =>
           /\ loop[ev'.q] = "wait"
           /\ handling[ev'.q] = NoMsg
           /\ call'.op = "send"
           /\ call'.msg.message_type = "status"
           /\ call'.msg.from_ = QueueOwner[ev'.q]
           /\ call'.msg.content.state = "idle"
           /\ call'.msg.content.workload = 0
           /\ call'.msg.content.current_task = None
      ]_vars

\* A status REQUEST that was sent after a TASK with a mapping content and
\* before the reply to that TASK, so while the TASK waited or was being
\* processed, has been answered.
C40_Witness ==
    /\ ev.kind = "status_sent"
    /\ ~MalformedHandled(ev.q)
    /\ call.msg.content.state = "idle"
    /\ \E m \in Elements(message_history) :
          /\ m.to = QueueOwner[ev.q]
          /\ m.message_type = "task"
          /\ IsMapping(m.content)
          /\ m.message_id < ev.msg.message_id
          /\ \E r \in RepliesTo(m) : ev.msg.message_id < r.message_id

====
